---- MODULE Spec2Model ----
(***************************************************************************)
(* A state-machine model of the query Coordinator of                       *)
(* be/src/runtime/coordinator.cc: Exec, Wait, GetNext, Cancel and          *)
(* UpdateFragmentExecStatus running on several threads, with the           *)
(* coordinator lock lock_, the wait lock wait_lock_, the per-state locks   *)
(* and the completion condition variable.                                  *)
(*                                                                         *)
(* Granularity: a step is one critical section.  Every section under a     *)
(* per-state lock (BackendExecState::lock) is one atomic step; a thread    *)
(* that holds lock_ over several such sections is at a pc between them     *)
(* and owns lock_.  backend_num is 0-based in the code and 1-based here.   *)
(***************************************************************************)
EXTENDS Integers, Sequences, FiniteSets, TLC

\* ---------------------------------------------------------------- bounds
NumBackends == 2      \* schedule.num_backends()
MaxReports  == 2      \* calls of UpdateFragmentExecStatus
MaxSummaries == 2     \* runs of ReportQuerySummary that are counted

\* ---------------------------------------------------------------- values
\* A Status, by its code: OK, CANCELLED, or an error (of a start rpc, of a
\* worker, of the local executor, of finalization, or a cause handed to Cancel).
OK        == "OK"
CANCELLED == "CANCELLED"
ERROR     == "ERROR"
INTERNAL_ERROR == "INTERNAL_ERROR"

\* Threads: the application thread (Exec, Wait, GetNext, Cancel), a second
\* thread calling Cancel and Wait, and a handler of status-report rpcs.
Backends   == 1..NumBackends
App        == "app"
Aux        == "aux"
Callers    == {App, Aux}
Reporters  == {"rpc1"}
InsertReporters == {"rpc1", "rpc2"}
TaskNames  == <<"task1", "task2", "task3", "task4">>
Tasks      == {TaskNames[b] : b \in 1..NumBackends}
Threads    == Callers \cup Reporters \cup InsertReporters
NoThread   == "none"
LockThreads == Threads \cup Tasks

\* The inputs of Exec: whether fragment 0 is unpartitioned, the statement type
\* and whether the request carries finalize_params (only inserts do).
Requests == {r \in [coord : BOOLEAN, stmt : {"QUERY", "DML"}, finalize : BOOLEAN] :
               r.finalize => r.stmt = "DML"}

\* A slot of backend_exec_states_ after resize() and before the state is created.
NullState == [created |-> FALSE, status |-> OK, initiated |-> FALSE, done |-> FALSE]

\* BackendExecState as its constructor leaves it.
NewBackendExecState == [created |-> TRUE, status |-> OK, initiated |-> FALSE,
                        done |-> FALSE]

\* A std::map with no entry.
EmptyMap == [k \in {} |-> 0]

\* params.insert_exec_status of a status report: num_appended_rows by partition
\* key and files_to_move by source path (a destination "" asks for a deletion).
\* NoInsert is a report with __isset.insert_exec_status false.
NoInsert == [isset |-> FALSE, num_appended_rows |-> EmptyMap, files_to_move |-> EmptyMap]
InsertStatuses ==
  { [isset |-> TRUE,
     num_appended_rows |-> [k \in {"p1"} |-> 1],
     files_to_move |-> [k \in {"tmp/a"} |-> "p1/a"]],
    [isset |-> TRUE,
     num_appended_rows |-> [k \in {"p1", "p2"} |-> IF k = "p1" THEN 2 ELSE 1],
     files_to_move |-> [k \in {"tmp/b", "tmp"} |-> IF k = "tmp" THEN "" ELSE "p2/b"]],
    [isset |-> TRUE,
     num_appended_rows |-> [k \in {"p2"} |-> 0],
     files_to_move |-> [k \in {"tmp"} |-> ""]] }

NoLocal == [op |-> "none", idx |-> 0, status |-> OK, done |-> FALSE, limit |-> FALSE,
            insert |-> NoInsert, first |-> 0]

VARIABLES
  query_status_,
  num_remaining_backends_,
  has_called_wait_,
  returned_all_results_,
  needs_finalization_,
  stmt_type_,
  executor_,                \* "NULL", "created", "prepared" or "open"; cancelled flag
  backend_exec_states_,     \* sequence of slots
  lock_,                    \* owner of Coordinator::lock_
  wait_lock_,               \* owner of Coordinator::wait_lock_
  exec_phase,               \* "none", "called", "running", "returned"
  exec_ret,                 \* status returned by Exec
  backend_num,              \* Exec: number of states created so far
  rpc_pending,              \* Exec: start rpcs of the fragment not yet run
  rpc_ret,                  \* Exec: statuses the start rpcs of the fragment returned
  pc,                       \* position of every thread
  local,                    \* locals of the call every thread is in
  worker,                   \* per backend: the worker side of the instance
  num_reports,              \* number of calls made of UpdateFragmentExecStatus
  partition_row_counts_,    \* rows appended, by partition key
  files_to_move_,           \* destination, by source path
  reported,                 \* the insert_exec_status of the reports, as received
  state_lock,               \* lock view: owner of every BackendExecState::lock
  lock_ops,                 \* lock view: what every thread has still to do to locks
  report_ret,               \* status the last UpdateFragmentExecStatus returns
  report_known,             \* whether the last report named an existing state
  start_rpc,                \* per state: the attempts of its start rpc
  fin,                      \* FinalizeQuery: where it is, what it returns
  fs,                       \* file-system operations issued, batch by batch
  hist,                     \* counters of effects
  wait_rets                 \* statuses the first and the last call of Wait returned

coordVars == <<query_status_, num_remaining_backends_, has_called_wait_,
               returned_all_results_, needs_finalization_, stmt_type_, executor_>>
execVars  == <<exec_phase, exec_ret, backend_num, rpc_pending, rpc_ret>>
insertVars == <<partition_row_counts_, files_to_move_, reported>>
lockVars  == <<state_lock, lock_ops>>
reportVars == <<report_ret, report_known>>
auxVars   == <<start_rpc, fin, fs>>
histVars  == <<num_reports, hist, wait_rets, insertVars, lockVars, reportVars, auxVars>>
vars == <<query_status_, num_remaining_backends_, has_called_wait_,
          returned_all_results_, needs_finalization_, stmt_type_, executor_,
          backend_exec_states_, lock_, wait_lock_, exec_phase, exec_ret,
          backend_num, rpc_pending, rpc_ret, pc, local, worker, num_reports, hist,
          wait_rets, partition_row_counts_, files_to_move_, reported, state_lock,
          lock_ops, report_ret, report_known, start_rpc, fin, fs>>

\* The attempts of a start rpc that has not begun.
NoStartRpc == [phase |-> "none", attempts |-> 0, thrown |-> 0, reopens |-> 0,
               reopen |-> "NONE", reply |-> "none", ret |-> "NONE"]

\* FinalizeQuery not called; no file-system operation issued.
NoFin == [phase |-> "none", is_overwrite |-> FALSE, entry |-> "NONE",
          return_status |-> "NONE", insert |-> "NONE", ret |-> "NONE"]
NoFs == [batches |-> <<>>, prep |-> {}, move |-> {}, del |-> {}, root |-> "none"]

NoHist == [open_calls |-> 0, snapshots |-> 0, finalize_calls |-> 0,
           wait_summaries |-> 0, cancel_internal |-> FALSE, summaries |-> 0,
           late_profile_update |-> FALSE, null_deref |-> FALSE]

\* Coordinator::Coordinator
Init ==
  /\ query_status_ = OK
  /\ num_remaining_backends_ = 0
  /\ has_called_wait_ = FALSE
  /\ returned_all_results_ = FALSE
  /\ needs_finalization_ = FALSE
  /\ stmt_type_ = "UNSET"
  /\ executor_ = [state |-> "NULL", cancelled |-> FALSE]
  /\ backend_exec_states_ = <<>>
  /\ lock_ = NoThread
  /\ wait_lock_ = NoThread
  /\ exec_phase = "none"
  /\ exec_ret = OK
  /\ backend_num = 0
  /\ rpc_pending = {}
  /\ rpc_ret = {}
  /\ pc = [t \in Threads |-> "idle"]
  /\ local = [t \in Threads |-> NoLocal]
  /\ worker = [b \in Backends |-> [running |-> FALSE, cancel_reached |-> 0,
                                   cancel_rpcs |-> 0]]
  /\ num_reports = 0
  /\ hist = NoHist
  /\ wait_rets = [first |-> "NONE", last |-> "NONE"]
  /\ partition_row_counts_ = EmptyMap
  /\ files_to_move_ = EmptyMap
  /\ reported = <<>>
  /\ state_lock = [b \in Backends |-> NoThread]
  /\ lock_ops = [t \in LockThreads |-> <<>>]
  /\ report_ret = "NONE"
  /\ report_known = TRUE
  /\ start_rpc = [b \in Backends |-> NoStartRpc]
  /\ fin = NoFin
  /\ fs = NoFs

\* ---------------------------------------------------------------- helpers
\* The indices of backend_exec_states_ (none before Exec has resized it).
States == {b \in Backends : b <= Len(backend_exec_states_)}

\* executor_->Cancel()
CancelExecutor(e) == IF e.state = "NULL" THEN e ELSE [e EXCEPT !.cancelled = TRUE]

\* backend_exec_states_ has a slot that resize() made and Exec never filled: a
\* loop that dereferences every slot dereferences a NULL pointer.
NullSlot == \E b \in States : ~backend_exec_states_[b].created

\* ReportQuerySummary: nothing before Wait has been called; otherwise the time
\* and the rate of every backend are added to the accumulators of its fragment
\* (one more run, counted up to MaxSummaries); the loop dereferences every slot.
ReportQuerySummary(h) ==
  IF ~has_called_wait_ THEN h
  ELSE [h EXCEPT !.summaries = IF @ < MaxSummaries THEN @ + 1 ELSE @,
                 !.null_deref = @ \/ NullSlot]

\* A faulty variant of CancelInternal, which C23 must reject: the caller goes
\* on as after CancelInternal, but nothing has been cancelled.
CancelInternal_NotRun(t, loc, e, h) ==
  /\ executor_' = e
  /\ pc' = [pc EXCEPT ![t] = "crf"]
  /\ local' = [local EXCEPT ![t] = [loc EXCEPT !.idx = Len(backend_exec_states_) + 1]]
  /\ hist' = h

\* CancelInternal is called on thread t, which holds lock_: the local executor
\* (e, as the caller leaves it) is cancelled and CancelRemoteFragments starts
\* with the first state; loc holds what the caller goes on with afterwards.
CancelInternal(t, loc, e, h) ==
  /\ executor_' = CancelExecutor(e)
  /\ pc' = [pc EXCEPT ![t] = "crf"]
  /\ local' = [local EXCEPT ![t] = [loc EXCEPT !.idx = 1]]
  /\ hist' = [h EXCEPT !.cancel_internal = TRUE]

\* backend_completion_cv_.notify_all(): every thread blocked in wait() re-checks
NotifyAll(p) == [t \in Threads |-> IF p[t] = "wfab_wait" THEN "wfab_check" ELSE p[t]]

Goto(t, label) == [pc EXCEPT ![t] = label]

\* ---------------------------------------------------------------- Exec
\* A faulty variant of LocalFragmentPrepared, which C15 must reject: Exec goes
\* on whatever the preparation returned.
LocalFragmentPrepared_NoTest(prepare, exprs) == TRUE

\* The two RETURN_IF_ERROR of the local fragment: executor_->Prepare and the
\* preparation of the output expressions both returned OK.
LocalFragmentPrepared(prepare, exprs) == prepare = OK /\ exprs = OK

\* Exec is called: needs_finalization_ and stmt_type_ are set from the request
\* before lock_ is asked for, so a Cancel of another thread can take lock_
\* between the call of Exec and its lock_guard.
ExecCall(request) ==
  /\ pc[App] = "idle"
  /\ exec_phase = "none"
  /\ needs_finalization_' = request.finalize
  /\ stmt_type_' = request.stmt
  /\ exec_phase' = "called"
  /\ pc' = Goto(App, "exec_lock")
  /\ local' = [local EXCEPT ![App] = [NoLocal EXCEPT !.op = "Exec"]]
  /\ UNCHANGED <<query_status_, num_remaining_backends_, has_called_wait_,
                 returned_all_results_, executor_, backend_exec_states_, lock_,
                 wait_lock_, exec_ret, backend_num, rpc_pending, rpc_ret, worker,
                 histVars>>

\* Exec from its lock_guard up to the loop over the fragments: lock_ is taken
\* when it is free, the local executor is created and prepared when
\* fragment 0 is unpartitioned (prepare: the status of executor_->Prepare;
\* exprs: that of the output expressions, prepared after it), and
\* backend_exec_states_ is resized.  An error of the preparation is returned at
\* once.
ExecBegin(request, prepare, exprs) ==
  /\ pc[App] = "exec_lock"
  /\ exec_phase = "called"
  /\ lock_ = NoThread
  /\ request.finalize = needs_finalization_ /\ request.stmt = stmt_type_
  /\ ~request.coord => (prepare = OK /\ exprs = OK)
  /\ prepare # OK => exprs = OK
  /\ executor_' = [state |-> CASE ~request.coord -> "NULL"
                               [] prepare = OK -> "prepared"
                               [] OTHER -> "created",
                   cancelled |-> FALSE]
  /\ IF LocalFragmentPrepared(prepare, exprs)
     THEN /\ lock_' = App
          /\ backend_exec_states_' = [b \in Backends |-> NullState]
          /\ num_remaining_backends_' = NumBackends
          /\ exec_phase' = "running"
          /\ pc' = Goto(App, "exec_create")
          /\ local' = [local EXCEPT ![App] = [NoLocal EXCEPT !.op = "Exec"]]
          /\ UNCHANGED exec_ret
     ELSE /\ exec_phase' = "returned"
          /\ exec_ret' = IF prepare # OK THEN prepare ELSE exprs
          /\ pc' = Goto(App, "idle")
          /\ local' = [local EXCEPT ![App] = NoLocal]
          /\ UNCHANGED <<lock_, backend_exec_states_, num_remaining_backends_>>
  /\ UNCHANGED <<query_status_, has_called_wait_, returned_all_results_,
                 needs_finalization_, stmt_type_, wait_lock_,
                 backend_num, rpc_pending, rpc_ret, worker, histVars>>

\* The inner loop of Exec for the next fragment, of num_hosts instances: one
\* BackendExecState per instance, in the next slots.  first is the slot
\* backend_num - num_hosts handed to ParallelExecutor.
ExecCreateStates(num_hosts) ==
  /\ pc[App] = "exec_create"
  /\ num_hosts \in 1..(NumBackends - backend_num)
  /\ backend_exec_states_' =
       [b \in Backends |-> IF b \in (backend_num + 1)..(backend_num + num_hosts)
                           THEN NewBackendExecState ELSE backend_exec_states_[b]]
  /\ rpc_pending' = (backend_num + 1)..(backend_num + num_hosts)
  /\ rpc_ret' = {}
  /\ backend_num' = backend_num + num_hosts
  /\ pc' = Goto(App, "exec_rpc")
  /\ local' = [local EXCEPT ![App].first = backend_num + 1]
  /\ UNCHANGED <<coordVars, lock_, wait_lock_, exec_phase, exec_ret, worker,
                 histVars>>

\* Outcomes of the rpc attempts of ExecRemoteFragment: no connection; a reply
\* (OK or not) to the first request, or to the second after a transport
\* exception and a reopen; a failed reopen; a second transport exception.
ExecOutcomes == {"conn_fail", "ok", "worker_err", "reopen_fail", "retry_ok",
                 "retry_worker_err", "throw_twice"}

\* What ExecRemoteFragment returns for an outcome of its rpc attempts.
ExecRemoteFragmentStatus(outcome) ==
  IF outcome \in {"ok", "retry_ok"} THEN OK ELSE ERROR

\* The state ExecRemoteFragment leaves: no assignment when the connection cannot
\* be had, the status otherwise, initiated when that status is OK.
ExecRemoteFragmentState(st, outcome) ==
  IF outcome = "conn_fail" THEN st
  ELSE [st EXCEPT !.status = ExecRemoteFragmentStatus(outcome),
                  !.initiated = (ExecRemoteFragmentStatus(outcome) = OK)]

\* ExecRemoteFragment for one state, run by the pool of ParallelExecutor while
\* Exec holds lock_; the state's lock is held for the whole call.  delivered:
\* whether a request whose reply was lost reached the worker.
ExecRemoteFragment(b, outcome, delivered) ==
  /\ pc[App] = "exec_rpc"
  /\ b \in rpc_pending
  /\ backend_exec_states_' =
       [backend_exec_states_ EXCEPT ![b] = ExecRemoteFragmentState(@, outcome)]
  /\ rpc_ret' = rpc_ret \cup ({ExecRemoteFragmentStatus(outcome)} \ {OK})
  /\ rpc_pending' = rpc_pending \ {b}
  /\ worker' = [worker EXCEPT
       ![b].running = CASE outcome \in {"ok", "retry_ok"} -> TRUE
                        [] outcome \in {"reopen_fail", "throw_twice"} -> delivered
                        [] OTHER -> FALSE]
  /\ UNCHANGED <<coordVars, lock_, wait_lock_, exec_phase, exec_ret, backend_num, pc,
                 local, histVars>>

\* A faulty variant of FragmentStarted, which C14 must reject: Exec goes on
\* although a start rpc of the fragment failed.
FragmentStarted_IgnoresStatus == rpc_pending = {}

\* ParallelExecutor::Exec has run every task of the fragment and returned OK.
FragmentStarted == rpc_pending = {} /\ rpc_ret = {}

\* ParallelExecutor::Exec has returned OK for the fragment: next fragment.
ExecNextFragment ==
  /\ pc[App] = "exec_rpc"
  /\ FragmentStarted
  /\ backend_num < NumBackends
  /\ pc' = Goto(App, "exec_create")
  /\ UNCHANGED <<coordVars, backend_exec_states_, lock_, wait_lock_, execVars, local,
                 worker, histVars>>

\* The last fragment started: Exec releases lock_ and returns OK.
ExecReturnOK ==
  /\ pc[App] = "exec_rpc"
  /\ FragmentStarted
  /\ backend_num = NumBackends
  /\ exec_phase' = "returned"
  /\ exec_ret' = OK
  /\ lock_' = NoThread
  /\ pc' = Goto(App, "idle")
  /\ local' = [local EXCEPT ![App] = NoLocal]
  /\ UNCHANGED <<coordVars, backend_exec_states_, wait_lock_, backend_num,
                 rpc_pending, rpc_ret, worker, histVars>>

\* A start rpc failed: query_status_ is assigned the status ParallelExecutor
\* returned (that of a failed task) and CancelInternal runs.  The DCHECK that
\* query_status_ is OK is compiled out of a release build.
ExecFragmentFailed(fragments_exec_status) ==
  /\ pc[App] = "exec_rpc"
  /\ rpc_pending = {}
  /\ fragments_exec_status \in rpc_ret
  /\ query_status_' = fragments_exec_status
  /\ CancelInternal(App, [NoLocal EXCEPT !.op = "Exec"], executor_, hist)
  /\ rpc_ret' = {}
  /\ UNCHANGED <<num_remaining_backends_, has_called_wait_, returned_all_results_,
                 needs_finalization_, stmt_type_, backend_exec_states_, lock_,
                 wait_lock_, exec_phase, exec_ret, backend_num, rpc_pending, worker,
                 num_reports, wait_rets, insertVars, lockVars, reportVars, auxVars>>

\* ---------------------------------------------------------------- Cancel
\* A faulty variant of CancelAlreadyInitiated, which C6 must reject: Cancel
\* goes on whatever query_status_ is.
CancelAlreadyInitiated_NoTest == FALSE

\* The test of Cancel under lock_: cancellation has already been initiated.
CancelAlreadyInitiated == query_status_ # OK

\* Cancel(cause); cause = OK stands for a NULL or OK cause.  The caller holds
\* lock_ until CancelInternal returns.
Cancel(t, cause) ==
  /\ pc[t] = "idle"
  /\ lock_ = NoThread
  /\ IF CancelAlreadyInitiated
     THEN UNCHANGED <<query_status_, executor_, lock_, pc, local, hist>>
     ELSE /\ query_status_' = IF cause # OK THEN cause ELSE CANCELLED
          /\ lock_' = t
          /\ CancelInternal(t, [NoLocal EXCEPT !.op = "Cancel", !.status = cause],
                            executor_, hist)
  /\ UNCHANGED <<num_remaining_backends_, has_called_wait_, returned_all_results_,
                 needs_finalization_, stmt_type_, backend_exec_states_, wait_lock_,
                 execVars, worker, num_reports, wait_rets, insertVars, lockVars,
                 reportVars, auxVars>>

\* A faulty variant of NeedsCancel, which C7 must reject: the status of the
\* state is not looked at.
NeedsCancel_IgnoresStatus(st) == st.created /\ st.initiated /\ ~st.done

\* A faulty variant of NeedsCancel, which C16 must reject: a state whose start
\* rpc has not returned OK is cancelled too.
NeedsCancel_IgnoresInitiated(st) == st.created /\ st.status = OK /\ ~st.done

\* Whether CancelRemoteFragments acts on a slot: created, status OK, initiated
\* and not done.
NeedsCancel(st) == st.created /\ st.status = OK /\ st.initiated /\ ~st.done

\* Outcomes of the rpc attempts of CancelRemoteFragments for one state: no
\* connection; a reply (OK or not) to the first request, or to the second after
\* a transport exception and a reopen; a failed reopen; a second transport
\* exception.
CancelOutcomes == {"conn_fail", "ok", "worker_err", "reopen_fail", "retry_ok",
                   "retry_worker_err", "throw_twice"}

\* Status::AddError and Status::AddErrorMsg, by the code of the status: a status
\* that is not OK keeps its code and gets one more message.
AddError(code, error) == IF code = OK THEN error ELSE code

\* A faulty variant of CancelledStatus, which C21 must reject: the error of the
\* rpc is assigned to the state.
CancelledStatus_TakesRpcError(outcome) ==
  IF outcome \in {"conn_fail", "ok", "retry_ok"} THEN CANCELLED ELSE ERROR

\* The status CancelRemoteFragments leaves on a state it has marked: CANCELLED,
\* with the error of a failed reopen, of a second exception or of the worker's
\* reply added to it.
CancelledStatus(outcome) ==
  IF outcome \in {"conn_fail", "ok", "retry_ok"} THEN CANCELLED
  ELSE AddError(CANCELLED, ERROR)

\* One iteration of the loop of CancelRemoteFragments, under the state's lock:
\* a state that needs it is marked CANCELLED, and the rpc is sent when a
\* connection to the backend can be had.
CancelRemoteFragmentsStep(t, outcome) ==
  /\ pc[t] = "crf"
  /\ local[t].idx <= Len(backend_exec_states_)
  /\ LET i == local[t].idx
         st == backend_exec_states_[i]
     IN IF NeedsCancel(st)
        THEN /\ backend_exec_states_' =
                  [backend_exec_states_ EXCEPT ![i].status = CancelledStatus(outcome)]
             /\ worker' = [worker EXCEPT
                  ![i].cancel_reached = @ + 1,
                  ![i].cancel_rpcs = IF outcome # "conn_fail" THEN @ + 1 ELSE @]
        ELSE /\ outcome = "ok"
             /\ UNCHANGED <<backend_exec_states_, worker>>
  /\ local' = [local EXCEPT ![t].idx = @ + 1]
  /\ UNCHANGED <<coordVars, lock_, wait_lock_, execVars, pc, histVars>>

\* The end of CancelRemoteFragments (notify_all) and the return to its caller:
\* CancelInternal (from Cancel, Exec or UpdateStatus), whose caller releases
\* lock_, or the row-limit path of GetNext, which goes on to wait for the
\* backends.  UpdateStatus returns the error it set: GetNext returns it, Wait
\* goes on without the snapshot.
CancelRemoteFragmentsEnd(t) ==
  /\ pc[t] = "crf"
  /\ local[t].idx > Len(backend_exec_states_)
  /\ LET woken == NotifyAll(pc)
         op == local[t].op
     IN /\ pc' = [woken EXCEPT ![t] =
                    CASE op = "Wait" -> "w_fin"
                      [] op = "GetNextLimit" -> "wfab_check"
                      [] OTHER -> "idle"]
        /\ local' = [local EXCEPT ![t] =
                    CASE op = "Wait" -> [NoLocal EXCEPT !.op = "Wait"]
                      [] op = "GetNextLimit" -> [NoLocal EXCEPT !.op = "GetNext"]
                      [] OTHER -> NoLocal]
        /\ lock_' = IF op = "GetNextLimit" THEN lock_ ELSE NoThread
        /\ exec_phase' = IF op = "Exec" THEN "returned" ELSE exec_phase
        /\ exec_ret' = IF op = "Exec" THEN query_status_ ELSE exec_ret
        /\ hist' = IF op = "GetNextLimit" THEN hist ELSE ReportQuerySummary(hist)
  /\ UNCHANGED <<coordVars, backend_exec_states_, wait_lock_, backend_num,
                 rpc_pending, rpc_ret, worker, num_reports, wait_rets, insertVars,
                 lockVars, reportVars, auxVars>>

\* ---------------------------------------------------------------- UpdateStatus
\* A faulty variant of UpdateStatusReturnsEarly, which C18 must reject: a
\* CANCELLED status is ignored whether or not all results were returned.
UpdateStatusReturnsEarly_IgnoresCancelled(status) ==
  \/ status = CANCELLED
  \/ status = OK
  \/ query_status_ # OK

\* The three early returns of UpdateStatus, for the status it is handed.
UpdateStatusReturnsEarly(status) ==
  \/ (returned_all_results_ /\ status = CANCELLED)
  \/ status = OK
  \/ query_status_ # OK

\* In Wait, after UpdateStatus(Open()) returned return_status: the snapshot of
\* the executor's write outputs when it is OK.
WaitSnapshot(h, return_status) ==
  IF return_status = OK THEN [h EXCEPT !.snapshots = @ + 1] ELSE h

\* UpdateStatus(status) under lock_, called on thread t by op (Wait, GetNext or
\* UpdateFragmentExecStatus), with e and h the executor and the counters as the
\* caller leaves them.  It returns query_status_ as it is, or sets it and runs
\* CancelInternal.  On the return Wait takes its snapshot; GetNext returns an
\* error or a batch, or goes on with the NULL batch (eos, limit).
UpdateStatusFrom(t, op, status, eos, limit, e, h) ==
  /\ lock_ = NoThread
  /\ IF UpdateStatusReturnsEarly(status)
     THEN /\ pc' = Goto(t, CASE op = "Wait" -> "w_fin"
                             [] op = "GetNext" /\ query_status_ = OK /\ eos -> "gn_eos"
                             [] OTHER -> "idle")
          /\ local' = [local EXCEPT ![t] =
                         CASE op = "Wait" -> [NoLocal EXCEPT !.op = "Wait"]
                           [] op = "GetNext" /\ query_status_ = OK /\ eos ->
                                [NoLocal EXCEPT !.op = "GetNext", !.limit = limit]
                           [] OTHER -> NoLocal]
          /\ hist' = IF op = "Wait" THEN WaitSnapshot(h, query_status_) ELSE h
          /\ executor_' = e
          /\ UNCHANGED <<query_status_, lock_>>
     ELSE /\ query_status_' = status
          /\ lock_' = t
          /\ CancelInternal(t, [NoLocal EXCEPT !.op = op], e, h)
  /\ UNCHANGED <<num_remaining_backends_, has_called_wait_, returned_all_results_,
                 needs_finalization_, stmt_type_, backend_exec_states_, wait_lock_,
                 execVars, worker, num_reports, wait_rets, insertVars, lockVars, reportVars, auxVars>>

\* UpdateStatus as UpdateFragmentExecStatus calls it, with the reported status.
UpdateStatus(t) ==
  /\ pc[t] = "us"
  /\ UpdateStatusFrom(t, "UFES", local[t].status, FALSE, FALSE, executor_, hist)

\* ---------------------------------------------------------------- Wait
\* Wait returns status: wait_lock_ is released.
WaitReturn(t, status) ==
  /\ wait_rets' = [first |-> IF wait_rets.first = "NONE" THEN status
                             ELSE wait_rets.first,
                   last |-> status]
  /\ wait_lock_' = NoThread
  /\ pc' = Goto(t, "idle")
  /\ local' = [local EXCEPT ![t] = NoLocal]

\* A faulty variant of WaitAlreadyCalled, which C9 must reject: every call of
\* Wait runs the body.
WaitAlreadyCalled_NoTest == FALSE

\* The test of Wait under wait_lock_: an earlier call has been made.
WaitAlreadyCalled == has_called_wait_

\* Entry of Wait under wait_lock_: a later call returns OK at once, the first
\* one sets has_called_wait_ and goes on holding wait_lock_.  Wait is called
\* once Exec has returned OK.
Wait(t) ==
  /\ pc[t] = "idle"
  /\ exec_phase = "returned" /\ exec_ret = OK
  /\ wait_lock_ = NoThread
  /\ IF WaitAlreadyCalled
     THEN /\ WaitReturn(t, OK)
          /\ UNCHANGED has_called_wait_
     ELSE /\ has_called_wait_' = TRUE
          /\ wait_lock_' = t
          /\ pc' = Goto(t, IF executor_.state # "NULL" THEN "w_open" ELSE "wfab_check")
          /\ local' = [local EXCEPT ![t] = [NoLocal EXCEPT !.op = "Wait"]]
          /\ UNCHANGED wait_rets
  /\ UNCHANGED <<query_status_, num_remaining_backends_, returned_all_results_,
                 needs_finalization_, stmt_type_, executor_, backend_exec_states_,
                 lock_, execVars, worker, num_reports, hist, insertVars, lockVars, reportVars, auxVars>>

\* Statuses executor_->Open() and executor_->GetNext() can return: OK, an error
\* of the fragment, or CANCELLED once the executor has been cancelled.
ExecutorResults == {OK, ERROR} \cup
                   (IF executor_.cancelled THEN {CANCELLED} ELSE {})

\* executor_->Open(), in which the caller has been blocked without lock_,
\* returns status, which goes to UpdateStatus.
WaitOpen(t, status) ==
  /\ pc[t] = "w_open"
  /\ status \in ExecutorResults
  /\ UpdateStatusFrom(t, "Wait", status, FALSE, FALSE,
                      [executor_ EXCEPT !.state = "open"],
                      [hist EXCEPT !.open_calls = @ + 1])

\* ---------------------------------------------------------------- WaitForAllBackends
\* A faulty variant of WaitReturnsBackendError, which C10 must reject: an error
\* of the backends is returned before finalization.
WaitReturnsBackendError_AlsoWhenFinalizing(status) == status # OK

\* In Wait without a local fragment: whether the status of WaitForAllBackends
\* is returned at once.
WaitReturnsBackendError(status) == ~needs_finalization_ /\ status # OK

\* One evaluation of the loop condition under lock_: wait on the condition
\* variable (releasing lock_), or return query_status_.  GetNext then returns;
\* Wait returns an error at once unless the query needs finalization.
WaitForAllBackends(t) ==
  /\ pc[t] = "wfab_check"
  /\ lock_ = NoThread
  /\ IF num_remaining_backends_ > 0 /\ query_status_ = OK
     THEN /\ pc' = Goto(t, "wfab_wait")
          /\ UNCHANGED <<local, wait_lock_, wait_rets, hist>>
     ELSE IF local[t].op = "GetNext"
     THEN /\ pc' = Goto(t, "idle")
          /\ local' = [local EXCEPT ![t] = NoLocal]
          /\ hist' = IF query_status_ = OK THEN ReportQuerySummary(hist) ELSE hist
          /\ UNCHANGED <<wait_lock_, wait_rets>>
     ELSE IF WaitReturnsBackendError(query_status_)
     THEN /\ WaitReturn(t, query_status_)
          /\ UNCHANGED hist
     ELSE /\ pc' = Goto(t, "w_fin")
          /\ UNCHANGED <<local, wait_lock_, wait_rets, hist>>
  /\ UNCHANGED <<coordVars, backend_exec_states_, lock_, execVars, worker,
                 num_reports, insertVars, lockVars, reportVars, auxVars>>

\* FinalizeQuery: GetStatus() (under lock_), FinalizeSuccessfulInsert when that
\* is OK (insert: the status it returns), the removal of the staging root.
FinalizeQuery(insert) == IF query_status_ # OK THEN query_status_ ELSE insert

\* The end of Wait, with ret what FinalizeQuery returned (OK when it was not
\* called): its error is returned; the insert stats and ReportQuerySummary for
\* a DML statement.
WaitEnd(t, ret) ==
  LET h1 == IF needs_finalization_
            THEN [hist EXCEPT !.finalize_calls = @ + 1] ELSE hist
  IN IF ret # OK
     THEN /\ hist' = h1
          /\ WaitReturn(t, ret)
     ELSE /\ hist' = IF stmt_type_ = "DML"
                     THEN ReportQuerySummary([h1 EXCEPT !.wait_summaries = @ + 1])
                     ELSE h1
          /\ WaitReturn(t, OK)

\* The end of Wait: FinalizeQuery when the query needs it, whose error is
\* returned; the insert stats and ReportQuerySummary for a DML statement.
WaitFinish(t, insert) ==
  /\ pc[t] = "w_fin"
  /\ insert \in {OK, ERROR}
  /\ needs_finalization_ => lock_ = NoThread
  /\ (~needs_finalization_ \/ query_status_ # OK) => insert = OK
  /\ WaitEnd(t, IF needs_finalization_ THEN FinalizeQuery(insert) ELSE OK)
  /\ UNCHANGED <<coordVars, backend_exec_states_, lock_, execVars, worker,
                 num_reports, insertVars, lockVars, reportVars, auxVars>>

\* ---------------------------------------------------------------- GetNext
\* GetNext without a local fragment: a NULL batch and GetStatus().
GetNextNoExecutor(t) ==
  /\ pc[t] = "idle"
  /\ has_called_wait_ /\ wait_lock_ = NoThread
  /\ executor_.state = "NULL"
  /\ lock_ = NoThread
  /\ UNCHANGED vars

\* GetNext with a local fragment: the call of executor_->GetNext(batch), which
\* may block.  lock_ is not taken here.
GetNext(t) ==
  /\ pc[t] = "idle"
  /\ has_called_wait_ /\ wait_lock_ = NoThread
  /\ executor_.state # "NULL"
  /\ pc' = Goto(t, "gn_exec")
  /\ local' = [local EXCEPT ![t] = [NoLocal EXCEPT !.op = "GetNext"]]
  /\ UNCHANGED <<coordVars, backend_exec_states_, lock_, wait_lock_, execVars,
                 worker, histVars>>

\* executor_->GetNext(batch) returns status, with a NULL batch when eos, having
\* reached its limit when limit; the status goes to UpdateStatus.
GetNextBatch(t, status, eos, limit) ==
  /\ pc[t] = "gn_exec"
  /\ status \in ExecutorResults
  /\ limit => eos
  /\ UpdateStatusFrom(t, "GetNext", status, eos, limit, executor_, hist)

\* The NULL batch after UpdateStatus returned OK: returned_all_results_ is set
\* (without lock_) and the remote fragments are cancelled when the limit was
\* reached, then the backends are waited for.
GetNextAllResults(t) ==
  /\ pc[t] = "gn_eos"
  /\ returned_all_results_' = TRUE
  /\ pc' = Goto(t, IF local[t].limit THEN "crf" ELSE "wfab_check")
  /\ local' = [local EXCEPT ![t] =
                 IF local[t].limit
                 THEN [NoLocal EXCEPT !.op = "GetNextLimit", !.idx = 1]
                 ELSE [NoLocal EXCEPT !.op = "GetNext"]]
  /\ UNCHANGED <<query_status_, num_remaining_backends_, has_called_wait_,
                 needs_finalization_, stmt_type_, executor_, backend_exec_states_,
                 lock_, wait_lock_, execVars, worker, histVars>>

\* ---------------------------------------------------------------- UpdateFragmentExecStatus
ReportStatuses == {OK, CANCELLED, ERROR}

\* A faulty variant of UpdateBackendState, which C1 must reject: the reported
\* status is assigned also when it is OK.
UpdateBackendState_AssignsAnyStatus(st, status, done) ==
  [st EXCEPT !.status = status, !.done = done]

\* The section of UpdateFragmentExecStatus under the state's lock: a non-OK
\* status is assigned, done is assigned params.done.
UpdateBackendState(st, status, done) ==
  [st EXCEPT !.status = IF status # OK THEN status ELSE @,
             !.done = done]

\* A faulty variant of AfterUpdate, which C12 must reject: a done report with
\* status OK is not counted.
AfterUpdate_DoneNotCounted(status, done) ==
  CASE status = CANCELLED -> "u_tail"
    [] status = ERROR -> "us"
    [] OTHER -> "idle"

\* Where UpdateFragmentExecStatus goes on after the section under the state's
\* lock and the merge: the test that follows them sends an error to
\* UpdateStatus and a done report to the count; for a CANCELLED report the test
\* reads returned_all_results_ and is a step of its own.
AfterUpdate(status, done) ==
  CASE status = CANCELLED -> "u_tail"
    [] status = ERROR -> "us"
    [] status = OK /\ done -> "u_done"
    [] OTHER -> "idle"

\* What the call keeps of params from there on.
AfterUpdateLocal(status, done) ==
  CASE status = CANCELLED ->
         [NoLocal EXCEPT !.op = "UFES", !.status = status, !.done = done]
    [] status = ERROR -> [NoLocal EXCEPT !.op = "UFES", !.status = status]
    [] status = OK /\ done -> [NoLocal EXCEPT !.op = "UFES"]
    [] OTHER -> NoLocal

\* The insert results are merged when the report is done and carries them.
MergesInsertStatus(done, insert) == done /\ insert.isset

\* A faulty variant of UnknownBackend, which C20 must reject: the last state is
\* taken for an unknown one.
UnknownBackend_RejectsLast(num) == num < 0 \/ num >= Len(backend_exec_states_) - 1

\* params.backend_num >= backend_exec_states_.size(): the int32 is converted to
\* size_t for the comparison, which makes of a negative number one larger than
\* any size.
UnknownBackend(num) == num < 0 \/ num >= Len(backend_exec_states_)

\* The test under the state's lock, after status and done have been assigned:
\* the profile of the state is updated from the report and added to the average
\* profile of its fragment.
UpdatesProfile(st) == st.status = OK

\* UpdateFragmentExecStatus(params) up to the release of the state's lock; num
\* is params.backend_num (0-based).  An unknown backend number is answered with
\* INTERNAL_ERROR at once; every other path returns OK.  A worker reports on an
\* instance only after it has received its start rpc, and attaches
\* insert_exec_status only to a final report.
UpdateFragmentExecStatus(t, num, status, done, insert) ==
  /\ pc[t] = "idle"
  /\ num_reports < MaxReports
  /\ num + 1 \in Backends => worker[num + 1].running
  /\ insert.isset => done
  /\ num_reports' = num_reports + 1
  /\ report_known' = (num + 1 \in States)
  /\ IF UnknownBackend(num)
     THEN /\ report_ret' = INTERNAL_ERROR
          /\ UNCHANGED <<backend_exec_states_, reported, pc, local, hist>>
     ELSE /\ report_ret' = OK
          /\ backend_exec_states_' =
               [backend_exec_states_ EXCEPT
                  ![num + 1] = UpdateBackendState(@, status, done)]
          /\ hist' = [hist EXCEPT
                        !.late_profile_update =
                           @ \/ (UpdatesProfile(backend_exec_states_'[num + 1])
                                   /\ hist.summaries > 0),
                        !.null_deref = @ \/ ~backend_exec_states_[num + 1].created]
          /\ reported' = IF insert.isset THEN Append(reported, insert) ELSE reported
          /\ IF MergesInsertStatus(done, insert)
             THEN /\ pc' = Goto(t, "u_merge")
                  /\ local' = [local EXCEPT ![t] =
                                 [NoLocal EXCEPT !.op = "UFES", !.status = status,
                                                 !.done = done, !.insert = insert]]
             ELSE /\ pc' = Goto(t, AfterUpdate(status, done))
                  /\ local' = [local EXCEPT ![t] = AfterUpdateLocal(status, done)]
  /\ UNCHANGED <<coordVars, lock_, wait_lock_, execVars, worker, wait_rets,
                 partition_row_counts_, files_to_move_, lockVars, auxVars>>

\* partition_row_counts_[key] += rows, for every entry of num_appended_rows: an
\* absent key starts at 0.
AddRowCounts_Assigns(counts, num_appended_rows) ==
  [k \in DOMAIN counts \cup DOMAIN num_appended_rows |->
     IF k \in DOMAIN num_appended_rows THEN num_appended_rows[k] ELSE counts[k]]

AddRowCounts(counts, num_appended_rows) ==
  [k \in DOMAIN counts \cup DOMAIN num_appended_rows |->
     (IF k \in DOMAIN counts THEN counts[k] ELSE 0)
     + (IF k \in DOMAIN num_appended_rows THEN num_appended_rows[k] ELSE 0)]

\* files_to_move_.insert(begin, end): std::map::insert leaves the entry of a
\* key that is already present as it is.
InsertFiles(files, files_to_move) ==
  [k \in DOMAIN files \cup DOMAIN files_to_move |->
     IF k \in DOMAIN files THEN files[k] ELSE files_to_move[k]]

\* The merge of insert_exec_status under lock_, after the state's lock is
\* released.
UpdateFragmentExecStatusMerge(t) ==
  /\ pc[t] = "u_merge"
  /\ lock_ = NoThread
  /\ partition_row_counts_' =
       AddRowCounts(partition_row_counts_, local[t].insert.num_appended_rows)
  /\ files_to_move_' = InsertFiles(files_to_move_, local[t].insert.files_to_move)
  /\ pc' = Goto(t, AfterUpdate(local[t].status, local[t].done))
  /\ local' = [local EXCEPT ![t] = AfterUpdateLocal(local[t].status, local[t].done)]
  /\ UNCHANGED <<coordVars, backend_exec_states_, lock_, wait_lock_, execVars,
                 worker, num_reports, hist, wait_rets, reported, lockVars, reportVars, auxVars>>

\* The same test for a CANCELLED report: it reads returned_all_results_
\* without lock_, after the state's lock is released.
UpdateFragmentExecStatusTail(t) ==
  /\ pc[t] = "u_tail"
  /\ IF ~returned_all_results_
     THEN /\ pc' = Goto(t, "us")
          /\ UNCHANGED local
     ELSE IF local[t].done
     THEN /\ pc' = Goto(t, "u_done")
          /\ local' = [local EXCEPT ![t] = [NoLocal EXCEPT !.op = "UFES"]]
     ELSE /\ pc' = Goto(t, "idle")
          /\ local' = [local EXCEPT ![t] = NoLocal]
  /\ UNCHANGED <<coordVars, backend_exec_states_, lock_, wait_lock_, execVars,
                 worker, histVars>>

\* The section under lock_ of a done report: the DCHECK that the count is
\* positive (compiled out of a release build), the decrement, and notify_all
\* when the count reaches zero.
UpdateFragmentExecStatusDone(t) ==
  /\ pc[t] = "u_done"
  /\ lock_ = NoThread
  /\ num_remaining_backends_' = num_remaining_backends_ - 1
  /\ pc' = [(IF num_remaining_backends_ - 1 = 0 THEN NotifyAll(pc) ELSE pc)
              EXCEPT ![t] = "idle"]
  /\ local' = [local EXCEPT ![t] = NoLocal]
  /\ UNCHANGED <<query_status_, has_called_wait_, returned_all_results_,
                 needs_finalization_, stmt_type_, executor_, backend_exec_states_,
                 lock_, wait_lock_, execVars, worker, histVars>>

\* ---------------------------------------------------------------- specification
Next ==
  \/ \E r \in Requests : ExecCall(r)
  \/ \E r \in Requests, prepare \in {OK, ERROR}, exprs \in {OK, ERROR} :
       ExecBegin(r, prepare, exprs)
  \/ \E n \in Backends : ExecCreateStates(n)
  \/ \E b \in Backends, o \in ExecOutcomes, d \in BOOLEAN : ExecRemoteFragment(b, o, d)
  \/ ExecNextFragment
  \/ ExecReturnOK
  \/ ExecFragmentFailed(ERROR)
  \/ \E t \in Callers, cause \in {OK, ERROR} : Cancel(t, cause)
  \/ \E t \in Threads, o \in CancelOutcomes : CancelRemoteFragmentsStep(t, o)
  \/ \E t \in Threads : CancelRemoteFragmentsEnd(t)
  \/ \E t \in Threads : UpdateStatus(t)
  \/ \E t \in Callers : WaitForAllBackends(t)
  \/ \E t \in Callers : Wait(t)
  \/ \E t \in Callers, s \in {OK, ERROR, CANCELLED} : WaitOpen(t, s)
  \/ \E t \in Callers, insert \in {OK, ERROR} : WaitFinish(t, insert)
  \/ GetNextNoExecutor(App)
  \/ GetNext(App)
  \/ \E s \in {OK, ERROR, CANCELLED}, eos \in BOOLEAN, limit \in BOOLEAN :
       GetNextBatch(App, s, eos, limit)
  \/ GetNextAllResults(App)
  \/ \E t \in Reporters, b \in Backends, s \in ReportStatuses, d \in BOOLEAN :
       UpdateFragmentExecStatus(t, b - 1, s, d, NoInsert)
  \/ \E t \in Reporters : UpdateFragmentExecStatusTail(t)
  \/ \E t \in Reporters : UpdateFragmentExecStatusDone(t)

Spec == Init /\ [][Next]_vars

\* ---------------------------------------------------------------- reports of an insert
\* The coordinator of an INSERT whose fragments all run remotely, once Exec has
\* started every instance and returned OK: a state of Spec, from which the
\* workers report on two handler threads, with their insert results.
InitReports ==
  /\ query_status_ = OK
  /\ num_remaining_backends_ = NumBackends
  /\ has_called_wait_ = FALSE
  /\ returned_all_results_ = FALSE
  /\ needs_finalization_ = TRUE
  /\ stmt_type_ = "DML"
  /\ executor_ = [state |-> "NULL", cancelled |-> FALSE]
  /\ backend_exec_states_ =
       [b \in Backends |-> [NewBackendExecState EXCEPT !.initiated = TRUE]]
  /\ lock_ = NoThread
  /\ wait_lock_ = NoThread
  /\ exec_phase = "returned"
  /\ exec_ret = OK
  /\ backend_num = NumBackends
  /\ rpc_pending = {}
  /\ rpc_ret = {}
  /\ pc = [t \in Threads |-> "idle"]
  /\ local = [t \in Threads |-> NoLocal]
  /\ worker = [b \in Backends |-> [running |-> TRUE, cancel_reached |-> 0,
                                   cancel_rpcs |-> 0]]
  /\ num_reports = 0
  /\ hist = NoHist
  /\ wait_rets = [first |-> "NONE", last |-> "NONE"]
  /\ partition_row_counts_ = EmptyMap
  /\ files_to_move_ = EmptyMap
  /\ reported = <<>>
  /\ state_lock = [b \in Backends |-> NoThread]
  /\ lock_ops = [t \in LockThreads |-> <<>>]
  /\ report_ret = "NONE"
  /\ report_known = TRUE
  /\ start_rpc = [b \in Backends |-> NoStartRpc]
  /\ fin = NoFin
  /\ fs = NoFs

NextReports ==
  \/ \E t \in InsertReporters, num \in (-1)..NumBackends, s \in ReportStatuses,
        d \in BOOLEAN, i \in InsertStatuses \cup {NoInsert} :
       UpdateFragmentExecStatus(t, num, s, d, i)
  \/ \E t \in InsertReporters : UpdateFragmentExecStatusMerge(t)
  \/ \E t \in InsertReporters : UpdateFragmentExecStatusTail(t)
  \/ \E t \in InsertReporters : UpdateFragmentExecStatusDone(t)
  \/ \E t \in InsertReporters : UpdateStatus(t)
  \/ \E t \in InsertReporters, o \in CancelOutcomes : CancelRemoteFragmentsStep(t, o)
  \/ \E t \in InsertReporters : CancelRemoteFragmentsEnd(t)

SpecReports == InitReports /\ [][NextReports]_vars

\* ---------------------------------------------------------------- the locks
\* The lock view of the coordinator: every operation reduced to the sequence of
\* lock operations of one of its paths, with the per-state locks held as the
\* code holds them (the sections that Spec takes as single steps are here an
\* acquisition and a release).  A thread starts a call by taking one of the
\* sequences and then runs it; an acquisition waits for the lock to be free.
LockL    == [kind |-> "lock_", b |-> 0]
LockW    == [kind |-> "wait_lock_", b |-> 0]
LockS(b) == [kind |-> "state", b |-> b]
Acq(l)   == [op |-> "acq", lock |-> l, bs |-> {}]
Rel(l)   == [op |-> "rel", lock |-> l, bs |-> {}]
SpawnTasks(bs) == [op |-> "spawn", lock |-> LockL, bs |-> bs]
JoinTasks(bs)  == [op |-> "join", lock |-> LockL, bs |-> bs]

\* lock_guard l(exec_state->lock) in the body of a loop over the states from
\* slot b on: CancelRemoteFragments, GetErrorLog, the loop of the done section
\* of UpdateFragmentExecStatus, ComputeTotalThroughput.
RECURSIVE StateLocksFrom(_)
StateLocksFrom(b) ==
  IF b > NumBackends THEN <<>>
  ELSE <<Acq(LockS(b)), Rel(LockS(b))>> \o StateLocksFrom(b + 1)

StateLocksInTurn == StateLocksFrom(1)

\* ExecRemoteFragment, a task of ParallelExecutor: the state's lock for the
\* whole call.
ExecRemoteFragmentOps(b) == <<Acq(LockS(b)), Rel(LockS(b))>>

\* CancelInternal, called with lock_ held.
CancelInternalOps == StateLocksInTurn

\* Exec for a plan whose first remote fragment has the instances 1..k and whose
\* second has the others; fails: the start of the fragment numbered fails (0:
\* none does), and CancelInternal runs.
ExecOps(k, fails) ==
  <<Acq(LockL), SpawnTasks(1..k), JoinTasks(1..k)>>
  \o (IF k < NumBackends /\ fails # 1
      THEN <<SpawnTasks((k + 1)..NumBackends), JoinTasks((k + 1)..NumBackends)>>
      ELSE <<>>)
  \o (IF fails # 0 THEN CancelInternalOps ELSE <<>>)
  \o <<Rel(LockL)>>

\* UpdateStatus: lock_, and CancelInternal when it sets query_status_.
UpdateStatusOps(cancels) ==
  <<Acq(LockL)>> \o (IF cancels THEN CancelInternalOps ELSE <<>>) \o <<Rel(LockL)>>

\* WaitForAllBackends: lock_, released and taken again by each wait on the
\* condition variable.
WaitForAllBackendsOps(waits) ==
  <<Acq(LockL)>> \o (IF waits THEN <<Rel(LockL), Acq(LockL)>> ELSE <<>>)
  \o <<Rel(LockL)>>

\* GetStatus, also as FinalizeQuery calls it.
GetStatusOps == <<Acq(LockL), Rel(LockL)>>

\* Wait: wait_lock_ for the whole call; UpdateStatus(Open()) with an executor,
\* WaitForAllBackends without; FinalizeQuery when the call gets that far.
WaitOps ==
  {<<Acq(LockW), Rel(LockW)>>}
  \cup {<<Acq(LockW)>> \o UpdateStatusOps(c) \o (IF f THEN GetStatusOps ELSE <<>>)
          \o <<Rel(LockW)>> : c \in BOOLEAN, f \in BOOLEAN}
  \cup {<<Acq(LockW)>> \o WaitForAllBackendsOps(w) \o (IF f THEN GetStatusOps ELSE <<>>)
          \o <<Rel(LockW)>> : w \in BOOLEAN, f \in BOOLEAN}

\* GetNext: GetStatus without an executor; UpdateStatus, and after the last
\* batch CancelRemoteFragments (without lock_) when the limit was reached, and
\* WaitForAllBackends.
GetNextOps ==
  {GetStatusOps}
  \cup {UpdateStatusOps(c) : c \in BOOLEAN}
  \cup {UpdateStatusOps(FALSE) \o (IF l THEN StateLocksInTurn ELSE <<>>)
          \o WaitForAllBackendsOps(w) : l \in BOOLEAN, w \in BOOLEAN}

\* Cancel: lock_, and CancelInternal unless cancellation was initiated before.
CancelOps == {UpdateStatusOps(c) : c \in BOOLEAN}

\* GetErrorLog: lock_, and every state's lock in turn under it.
GetErrorLogOps == <<Acq(LockL)>> \o StateLocksInTurn \o <<Rel(LockL)>>

\* ComputeTotalThroughput and ComputeTotalScanRangesComplete, called when the
\* profile is printed: every state's lock in turn.
ComputeTotalOps == StateLocksInTurn

\* A faulty variant of UpdateFragmentExecStatusOps, which C17 must reject: the
\* merge under lock_ is made inside the section under the state's lock.
UpdateFragmentExecStatusOps_MergeUnderStateLock(b, merge, tail) ==
  <<Acq(LockS(b))>> \o (IF merge THEN <<Acq(LockL), Rel(LockL)>> ELSE <<>>)
  \o <<Rel(LockS(b))>>

\* UpdateFragmentExecStatus for the state b: the section under the state's
\* lock; the merge under lock_ when the report carries insert results; then
\* nothing, UpdateStatus with or without CancelInternal, or the done section
\* under lock_ with or without the loop that looks for a state in progress.
UpdateFragmentExecStatusOps(b, merge, tail) ==
  <<Acq(LockS(b)), Rel(LockS(b))>>
  \o (IF merge THEN <<Acq(LockL), Rel(LockL)>> ELSE <<>>)
  \o CASE tail = "error" -> UpdateStatusOps(FALSE)
       [] tail = "error_cancel" -> UpdateStatusOps(TRUE)
       [] tail = "done" -> <<Acq(LockL), Rel(LockL)>>
       [] tail = "done_log" -> <<Acq(LockL)>> \o StateLocksInTurn \o <<Rel(LockL)>>
       [] OTHER -> <<>>

ReportTails == {"return", "error", "error_cancel", "done", "done_log"}

Owner(l) ==
  CASE l.kind = "lock_" -> lock_
    [] l.kind = "wait_lock_" -> wait_lock_
    [] OTHER -> state_lock[l.b]

nonLockVars == <<coordVars, backend_exec_states_, exec_ret, backend_num, rpc_pending,
                 rpc_ret, pc, local, worker, num_reports, hist, wait_rets, insertVars,
                 reportVars, auxVars>>

\* A thread starts a call.
StartOps(t, ops) ==
  /\ lock_ops[t] = <<>>
  /\ lock_ops' = [lock_ops EXCEPT ![t] = ops]
  /\ UNCHANGED <<nonLockVars, lock_, wait_lock_, state_lock>>

\* Exec is called once, by the application thread.
LockExec(k, fails) ==
  /\ exec_phase = "none"
  /\ fails = 2 => k < NumBackends
  /\ exec_phase' = "running"
  /\ StartOps(App, ExecOps(k, fails))

\* The calls of a thread: the application thread calls Wait and GetNext after
\* Exec has returned, the second thread Wait, Cancel, GetErrorLog and the
\* printing of the profile.
CallsOf(t) ==
  IF t = App THEN WaitOps \cup GetNextOps
  ELSE WaitOps \cup CancelOps \cup {GetErrorLogOps, ComputeTotalOps}

LockCall(t, ops) ==
  /\ exec_phase # "none"
  /\ t = App => exec_phase = "returned"
  /\ ops \in CallsOf(t)
  /\ StartOps(t, ops)
  /\ UNCHANGED exec_phase

\* A status report is served.
LockReport(t, b, merge, tail) ==
  /\ exec_phase # "none"
  /\ StartOps(t, UpdateFragmentExecStatusOps(b, merge, tail))
  /\ UNCHANGED exec_phase

\* The mutex is acquired when it is free.
LockAcquire(t) ==
  /\ lock_ops[t] # <<>>
  /\ Head(lock_ops[t]).op = "acq"
  /\ Owner(Head(lock_ops[t]).lock) = NoThread
  /\ LET l == Head(lock_ops[t]).lock
     IN /\ lock_' = IF l.kind = "lock_" THEN t ELSE lock_
        /\ wait_lock_' = IF l.kind = "wait_lock_" THEN t ELSE wait_lock_
        /\ state_lock' = IF l.kind = "state" THEN [state_lock EXCEPT ![l.b] = t]
                         ELSE state_lock
  /\ lock_ops' = [lock_ops EXCEPT ![t] = Tail(@)]
  /\ UNCHANGED <<nonLockVars, exec_phase>>

\* The mutex is released; Exec has returned when it releases lock_.
LockRelease(t) ==
  /\ lock_ops[t] # <<>>
  /\ Head(lock_ops[t]).op = "rel"
  /\ LET l == Head(lock_ops[t]).lock
     IN /\ lock_' = IF l.kind = "lock_" THEN NoThread ELSE lock_
        /\ wait_lock_' = IF l.kind = "wait_lock_" THEN NoThread ELSE wait_lock_
        /\ state_lock' = IF l.kind = "state" THEN [state_lock EXCEPT ![l.b] = NoThread]
                         ELSE state_lock
  /\ lock_ops' = [lock_ops EXCEPT ![t] = Tail(@)]
  /\ exec_phase' = IF exec_phase = "running" /\ t = App /\ Len(lock_ops[t]) = 1
                   THEN "returned" ELSE exec_phase
  /\ UNCHANGED nonLockVars

\* ParallelExecutor::Exec hands the states of the fragment to its tasks.
LockSpawn(t) ==
  /\ lock_ops[t] # <<>>
  /\ Head(lock_ops[t]).op = "spawn"
  /\ lock_ops' = [u \in LockThreads |->
                    IF u = t THEN Tail(lock_ops[t])
                    ELSE IF \E b \in Head(lock_ops[t]).bs : u = TaskNames[b]
                    THEN ExecRemoteFragmentOps(CHOOSE b \in Head(lock_ops[t]).bs :
                                                 u = TaskNames[b])
                    ELSE lock_ops[u]]
  /\ UNCHANGED <<nonLockVars, exec_phase, lock_, wait_lock_, state_lock>>

\* ParallelExecutor::Exec returns when every task has returned.
LockJoin(t) ==
  /\ lock_ops[t] # <<>>
  /\ Head(lock_ops[t]).op = "join"
  /\ \A b \in Head(lock_ops[t]).bs : lock_ops[TaskNames[b]] = <<>>
  /\ lock_ops' = [lock_ops EXCEPT ![t] = Tail(@)]
  /\ UNCHANGED <<nonLockVars, exec_phase, lock_, wait_lock_, state_lock>>

NextLocks ==
  \/ \E k \in Backends, fails \in 0..2 : LockExec(k, fails)
  \/ \E t \in Callers : \E ops \in CallsOf(t) : LockCall(t, ops)
  \/ \E t \in Reporters, b \in Backends, merge \in BOOLEAN, tail \in ReportTails :
       LockReport(t, b, merge, tail)
  \/ \E t \in LockThreads : LockAcquire(t)
  \/ \E t \in LockThreads : LockRelease(t)
  \/ LockSpawn(App)
  \/ LockJoin(App)

SpecLocks == Init /\ [][NextLocks]_vars

\* ---------------------------------------------------------------- the start rpc
\* ExecRemoteFragment attempt by attempt, for the instances of the first
\* fragment of a query without a local fragment: Exec holds lock_ and
\* ParallelExecutor runs one task per state, each under the lock of its state.
InitStart ==
  /\ query_status_ = OK
  /\ num_remaining_backends_ = NumBackends
  /\ has_called_wait_ = FALSE
  /\ returned_all_results_ = FALSE
  /\ needs_finalization_ = FALSE
  /\ stmt_type_ = "QUERY"
  /\ executor_ = [state |-> "NULL", cancelled |-> FALSE]
  /\ \E num_hosts \in 1..NumBackends :
       /\ backend_exec_states_ =
            [b \in Backends |-> IF b <= num_hosts THEN NewBackendExecState
                                ELSE NullState]
       /\ backend_num = num_hosts
       /\ rpc_pending = 1..num_hosts
  /\ lock_ = App
  /\ wait_lock_ = NoThread
  /\ exec_phase = "running"
  /\ exec_ret = OK
  /\ rpc_ret = {}
  /\ pc = [t \in Threads |-> IF t = App THEN "exec_rpc" ELSE "idle"]
  /\ local = [t \in Threads |-> IF t = App
                                THEN [NoLocal EXCEPT !.op = "Exec", !.first = 1]
                                ELSE NoLocal]
  /\ worker = [b \in Backends |-> [running |-> FALSE, cancel_reached |-> 0,
                                   cancel_rpcs |-> 0]]
  /\ num_reports = 0
  /\ hist = NoHist
  /\ wait_rets = [first |-> "NONE", last |-> "NONE"]
  /\ partition_row_counts_ = EmptyMap
  /\ files_to_move_ = EmptyMap
  /\ reported = <<>>
  /\ state_lock = [b \in Backends |-> NoThread]
  /\ lock_ops = [t \in LockThreads |-> <<>>]
  /\ report_ret = "NONE"
  /\ report_known = TRUE
  /\ start_rpc = [b \in Backends |-> NoStartRpc]
  /\ fin = NoFin
  /\ fs = NoFs

startFrame == <<coordVars, lock_, wait_lock_, exec_phase, exec_ret, backend_num, pc,
                local, num_reports, hist, wait_rets, insertVars, lockVars, reportVars,
                fin, fs>>

\* ExecRemoteFragment returns status for state b, which it leaves as st; r
\* holds its attempts.
StartReturn(b, r, st, status) ==
  /\ backend_exec_states_' = [backend_exec_states_ EXCEPT ![b] = st]
  /\ rpc_ret' = rpc_ret \cup ({status} \ {OK})
  /\ rpc_pending' = rpc_pending \ {b}
  /\ start_rpc' = [start_rpc EXCEPT ![b] = [r EXCEPT !.phase = "returned",
                                                     !.ret = status]]

\* The connection to the backend is taken from the client cache; without it
\* ExecRemoteFragment returns the error (RETURN_IF_ERROR) and assigns nothing.
StartConnect(b, status) ==
  /\ pc[App] = "exec_rpc"
  /\ b \in rpc_pending
  /\ start_rpc[b].phase = "none"
  /\ status \in {OK, ERROR}
  /\ IF status = OK
     THEN /\ start_rpc' = [start_rpc EXCEPT ![b].phase = "connected"]
          /\ UNCHANGED <<backend_exec_states_, rpc_ret, rpc_pending>>
     ELSE StartReturn(b, start_rpc[b], backend_exec_states_[b], status)
  /\ UNCHANGED <<startFrame, worker>>

\* A faulty variant of RetriesAfterException, which C24 must reject: every
\* transport exception is answered with a reopen and another request.
RetriesAfterException_Always(thrown) == TRUE

\* The inner catch of ExecRemoteFragment takes the exception of the first
\* request only: the second request is made inside the handler, so that its
\* exception goes to the outer catch.
RetriesAfterException(thrown) == thrown = 0

\* backend_client->ExecPlanFragment: the worker replies (OK or not), or the
\* transport throws; delivered: whether a request that threw reached the worker.
StartExecPlanFragment(b, reply, delivered) ==
  /\ pc[App] = "exec_rpc"
  /\ b \in rpc_pending
  /\ start_rpc[b].phase \in {"connected", "reopened"}
  /\ reply \in {"ok", "worker_err", "throw"}
  /\ LET r == [start_rpc[b] EXCEPT !.attempts = @ + 1]
         st == backend_exec_states_[b]
         status == IF reply = "ok" THEN OK ELSE ERROR
     IN /\ worker' = [worker EXCEPT ![b].running =
                        CASE reply = "ok" -> TRUE
                          [] reply = "throw" -> @ \/ delivered
                          [] OTHER -> @]
        /\ IF reply = "throw"
           THEN IF RetriesAfterException(r.thrown)
                THEN /\ start_rpc' = [start_rpc EXCEPT
                                        ![b] = [r EXCEPT !.thrown = @ + 1,
                                                         !.phase = "thrown"]]
                     /\ UNCHANGED <<backend_exec_states_, rpc_ret, rpc_pending>>
                ELSE StartReturn(b, [r EXCEPT !.thrown = @ + 1],
                                 [st EXCEPT !.status = ERROR], ERROR)
           ELSE StartReturn(b, [r EXCEPT !.reply = reply],
                            [st EXCEPT !.status = status,
                                       !.initiated = @ \/ status = OK],
                            status)
  /\ UNCHANGED startFrame

\* backend_client.Reopen() in the inner catch: when it fails its status is
\* assigned to the state and returned.
StartReopen(b, status) ==
  /\ pc[App] = "exec_rpc"
  /\ b \in rpc_pending
  /\ start_rpc[b].phase = "thrown"
  /\ status \in {OK, ERROR}
  /\ LET r == [start_rpc[b] EXCEPT !.reopens = @ + 1, !.reopen = status]
     IN IF status = OK
        THEN /\ start_rpc' = [start_rpc EXCEPT ![b] = [r EXCEPT !.phase = "reopened"]]
             /\ UNCHANGED <<backend_exec_states_, rpc_ret, rpc_pending>>
        ELSE StartReturn(b, r, [backend_exec_states_[b] EXCEPT !.status = status],
                         status)
  /\ UNCHANGED <<startFrame, worker>>

NextStart ==
  \/ \E b \in Backends, s \in {OK, ERROR} : StartConnect(b, s)
  \/ \E b \in Backends, reply \in {"ok", "worker_err", "throw"}, d \in BOOLEAN :
       StartExecPlanFragment(b, reply, d)
  \/ \E b \in Backends, s \in {OK, ERROR} : StartReopen(b, s)

SpecStart == InitStart /\ [][NextStart]_vars

\* ---------------------------------------------------------------- finalization
\* FinalizeQuery phase by phase, as the first Wait of an INSERT without a local
\* fragment calls it: the backends have all reported, or the query has failed
\* or been cancelled; Cancel can be called meanwhile.  partition_row_counts_,
\* files_to_move_ and finalize_params_.is_overwrite are inputs; a path stands
\* for itself under hdfs_base_dir.
PartitionInputs == {[k \in {""} |-> 1], [k \in {"p1"} |-> 1], [k \in {"p1", "p2"} |-> 1]}
FileInputs ==
  { EmptyMap,
    [k \in {"tmp/a"} |-> "p1/a"],
    [k \in {"tmp/a", "tmp"} |-> IF k = "tmp" THEN "" ELSE "p1/a"],
    [k \in {"tmp/a", "tmp/b", "tmp"} |->
       CASE k = "tmp" -> "" [] k = "tmp/a" -> "p1/a" [] OTHER -> "p2/b"] }

\* What hdfsListDirectory finds in the table directory: files (hidden or not)
\* and directories.
ListingInputs ==
  { {},
    {[name |-> "f1", file |-> TRUE, hidden |-> FALSE]},
    {[name |-> "f1", file |-> TRUE, hidden |-> FALSE],
     [name |-> ".h", file |-> TRUE, hidden |-> TRUE],
     [name |-> "tmp", file |-> FALSE, hidden |-> FALSE]} }

InitFinalize ==
  /\ query_status_ \in {OK, CANCELLED, ERROR}
  /\ num_remaining_backends_ = IF query_status_ = OK THEN 0 ELSE NumBackends
  /\ has_called_wait_ = TRUE
  /\ returned_all_results_ = FALSE
  /\ needs_finalization_ = TRUE
  /\ stmt_type_ = "DML"
  /\ executor_ = [state |-> "NULL", cancelled |-> FALSE]
  /\ backend_exec_states_ =
       [b \in Backends |->
          [created |-> TRUE, initiated |-> TRUE,
           status |-> CASE query_status_ = OK -> OK
                        [] query_status_ = ERROR /\ b = 1 -> ERROR
                        [] OTHER -> CANCELLED,
           done |-> (query_status_ = OK \/ (query_status_ = ERROR /\ b = 1))]]
  /\ lock_ = NoThread
  /\ wait_lock_ = App
  /\ exec_phase = "returned"
  /\ exec_ret = OK
  /\ backend_num = NumBackends
  /\ rpc_pending = {}
  /\ rpc_ret = {}
  /\ pc = [t \in Threads |-> IF t = App THEN "w_fin" ELSE "idle"]
  /\ local = [t \in Threads |-> IF t = App THEN [NoLocal EXCEPT !.op = "Wait"]
                                ELSE NoLocal]
  /\ worker = [b \in Backends |->
                 [running |-> TRUE,
                  cancel_reached |-> IF backend_exec_states_[b].status = CANCELLED
                                     THEN 1 ELSE 0,
                  cancel_rpcs |-> IF backend_exec_states_[b].status = CANCELLED
                                  THEN 1 ELSE 0]]
  /\ num_reports = 0
  /\ hist = [NoHist EXCEPT !.cancel_internal = (query_status_ # OK)]
  /\ wait_rets = [first |-> "NONE", last |-> "NONE"]
  /\ partition_row_counts_ \in PartitionInputs
  /\ files_to_move_ \in FileInputs
  /\ reported = <<>>
  /\ state_lock = [b \in Backends |-> NoThread]
  /\ lock_ops = [t \in LockThreads |-> <<>>]
  /\ report_ret = "NONE"
  /\ report_known = TRUE
  /\ start_rpc = [b \in Backends |-> NoStartRpc]
  /\ fin \in {[NoFin EXCEPT !.is_overwrite = o] : o \in BOOLEAN}
  /\ fs = NoFs

finalizeFrame == <<coordVars, backend_exec_states_, lock_, wait_lock_, execVars, pc,
                   local, worker, num_reports, hist, wait_rets, insertVars, lockVars,
                   reportVars, start_rpc>>

\* A faulty variant of FinalizesInsert, which C27 must reject: the insert is
\* finalized whatever the status of the query.
FinalizesInsert_Always(return_status) == TRUE

\* The test of FinalizeQuery on the status GetStatus returned.
FinalizesInsert(return_status) == return_status = OK

\* FinalizeQuery up to its test: return_status = GetStatus(), under lock_.
FinalizeQueryBegin ==
  /\ pc[App] = "w_fin"
  /\ needs_finalization_
  /\ fin.phase = "none"
  /\ lock_ = NoThread
  /\ fin' = [fin EXCEPT !.entry = query_status_, !.return_status = query_status_,
                        !.phase = IF FinalizesInsert(query_status_) THEN "prepare"
                                  ELSE "root"]
  /\ UNCHANGED <<finalizeFrame, fs>>

\* HdfsOperationSet::Execute(pool, false) runs every operation of the set and
\* returns whether none failed; errors() holds the failed ones.
ExecuteSucceeded(failed) == failed = {}

\* The operations of a set as the log keeps them, with their results.
Executed(ops, failed) ==
  {[op |-> o.op, path |-> o.path, dst |-> o.dst, ok |-> o \notin failed] : o \in ops}

\* FinalizeSuccessfulInsert returns status to FinalizeQuery.
InsertReturns(status) ==
  fin' = [fin EXCEPT !.insert = status, !.return_status = status, !.phase = "root"]

\* The operations FinalizeSuccessfulInsert adds to partition_create_ops for the
\* partition key k: listing is what the table directory holds, exists the
\* partition directories there are.
PartitionOps(k, listing, exists) ==
  CASE ~fin.is_overwrite -> {[op |-> "CREATE_DIR", path |-> k, dst |-> ""]}
    [] fin.is_overwrite /\ k = "" ->
         {[op |-> "DELETE", path |-> e.name, dst |-> ""] :
            e \in {f \in listing : f.file /\ ~f.hidden}}
    [] fin.is_overwrite /\ k # "" /\ k \in exists ->
         {[op |-> "DELETE_THEN_CREATE", path |-> k, dst |-> ""]}
    [] OTHER -> {[op |-> "CREATE_DIR", path |-> k, dst |-> ""]}

PartitionCreateOps(listing, exists) ==
  UNION {PartitionOps(k, listing, exists) : k \in DOMAIN partition_row_counts_}

\* A faulty variant of PartitionCreateFailed, which C28 must reject: only the
\* error of a DELETE is fatal.
PartitionCreateFailed_OnlyDelete(failed) ==
  ~ExecuteSucceeded(failed) /\ \E o \in failed : o.op = "DELETE"

\* The batch of partition_create_ops failed with an error that is not one of a
\* CREATE_DIR.
PartitionCreateFailed(failed) ==
  ~ExecuteSucceeded(failed) /\ \E o \in failed : o.op # "CREATE_DIR"

\* Phase 1: the partition directories are prepared.  listed: whether
\* hdfsListDirectory gave a listing; without it the error is returned before
\* anything is executed.
FinalizePrepare(listed, listing, exists, failed) ==
  /\ pc[App] = "w_fin"
  /\ fin.phase = "prepare"
  /\ listing \in ListingInputs
  /\ exists \subseteq DOMAIN partition_row_counts_
  /\ LET lists == fin.is_overwrite /\ "" \in DOMAIN partition_row_counts_
         ops == PartitionCreateOps(listing, exists)
     IN /\ ~lists => (listed /\ listing = {})
        /\ ~fin.is_overwrite => exists = {}
        /\ IF lists /\ ~listed
           THEN /\ failed = {} /\ listing = {}
                /\ InsertReturns(ERROR)
                /\ UNCHANGED fs
           ELSE /\ failed \subseteq ops
                /\ fs' = [fs EXCEPT !.batches = Append(@, "prepare"),
                                    !.prep = Executed(ops, failed)]
                /\ IF PartitionCreateFailed(failed)
                   THEN InsertReturns(ERROR)
                   ELSE fin' = [fin EXCEPT !.phase = "move"]
  /\ UNCHANGED finalizeFrame

\* move_ops and dir_deletion_ops, from files_to_move_: an entry with an empty
\* destination is a directory to delete.
MoveOps ==
  {[op |-> "RENAME", path |-> k, dst |-> files_to_move_[k]] :
     k \in {f \in DOMAIN files_to_move_ : files_to_move_[f] # ""}}
DirDeletionOps ==
  {[op |-> "DELETE", path |-> k, dst |-> ""] :
     k \in {f \in DOMAIN files_to_move_ : files_to_move_[f] = ""}}

\* A faulty variant of MoveOpsFailed, which C25 must reject: the result of the
\* batch of renames is not looked at.
MoveOpsFailed_Ignored(failed) == FALSE

\* The test on move_ops.Execute.
MoveOpsFailed(failed) == ~ExecuteSucceeded(failed)

\* Phase 2: the files are moved.
FinalizeMove(failed) ==
  /\ pc[App] = "w_fin"
  /\ fin.phase = "move"
  /\ failed \subseteq MoveOps
  /\ fs' = [fs EXCEPT !.batches = Append(@, "move"), !.move = Executed(MoveOps, failed)]
  /\ IF MoveOpsFailed(failed)
     THEN InsertReturns(ERROR)
     ELSE fin' = [fin EXCEPT !.phase = "delete"]
  /\ UNCHANGED finalizeFrame

\* A faulty variant of DirDeletionFailed, which C26 must reject: the result of
\* the batch of deletions is not looked at.
DirDeletionFailed_Ignored(failed) == FALSE

\* The test on dir_deletion_ops.Execute.
DirDeletionFailed(failed) == ~ExecuteSucceeded(failed)

\* Phase 3: the staging directories are deleted.
FinalizeDelete(failed) ==
  /\ pc[App] = "w_fin"
  /\ fin.phase = "delete"
  /\ failed \subseteq DirDeletionOps
  /\ fs' = [fs EXCEPT !.batches = Append(@, "delete"),
                      !.del = Executed(DirDeletionOps, failed)]
  /\ InsertReturns(IF DirDeletionFailed(failed) THEN ERROR ELSE OK)
  /\ UNCHANGED finalizeFrame

\* Phase 4: hdfsDelete of the staging root of the query, recursively; removed:
\* whether it succeeded, which FinalizeQuery does not look at.  FinalizeQuery
\* returns return_status.
FinalizeRemoveStagingRoot(removed) ==
  /\ pc[App] = "w_fin"
  /\ fin.phase = "root"
  /\ fs' = [fs EXCEPT !.batches = Append(@, "root"),
                      !.root = IF removed THEN "ok" ELSE "failed"]
  /\ fin' = [fin EXCEPT !.phase = "returned", !.ret = fin.return_status]
  /\ UNCHANGED finalizeFrame

\* Wait goes on with what FinalizeQuery returned.
FinalizeQueryReturn ==
  /\ pc[App] = "w_fin"
  /\ fin.phase = "returned"
  /\ WaitEnd(App, fin.ret)
  /\ UNCHANGED <<coordVars, backend_exec_states_, lock_, execVars, worker,
                 num_reports, insertVars, lockVars, reportVars, auxVars>>

NextFinalize ==
  \/ FinalizeQueryBegin
  \/ \E listed \in BOOLEAN, listing \in ListingInputs,
        exists \in SUBSET DOMAIN partition_row_counts_ :
       \E failed \in SUBSET PartitionCreateOps(listing, exists) :
         FinalizePrepare(listed, listing, exists, failed)
  \/ \E failed \in SUBSET MoveOps : FinalizeMove(failed)
  \/ \E failed \in SUBSET DirDeletionOps : FinalizeDelete(failed)
  \/ \E removed \in BOOLEAN : FinalizeRemoveStagingRoot(removed)
  \/ FinalizeQueryReturn
  \/ \E cause \in {OK, ERROR} : Cancel(Aux, cause)
  \/ \E o \in CancelOutcomes : CancelRemoteFragmentsStep(Aux, o)
  \/ CancelRemoteFragmentsEnd(Aux)

SpecFinalize == InitFinalize /\ [][NextFinalize]_vars

\* ---------------------------------------------------------------- fair scheduling
\* The steps by which thread t goes on with a call it has begun: every one but
\* the entry of a public operation and the arrival of a report.
Continue(t) ==
  \/ /\ t = App
     /\ \/ \E s \in {OK, ERROR, CANCELLED}, eos \in BOOLEAN, limit \in BOOLEAN :
             GetNextBatch(App, s, eos, limit)
        \/ GetNextAllResults(App)
  \/ \E o \in CancelOutcomes : CancelRemoteFragmentsStep(t, o)
  \/ CancelRemoteFragmentsEnd(t)
  \/ UpdateStatus(t)
  \/ WaitForAllBackends(t)
  \/ \E s \in {OK, ERROR, CANCELLED} : WaitOpen(t, s)
  \/ \E insert \in {OK, ERROR} : WaitFinish(t, insert)
  \/ UpdateFragmentExecStatusTail(t)
  \/ UpdateFragmentExecStatusDone(t)

\* The coordinator of a SELECT, with or without a local fragment, once Exec has
\* started every instance and returned OK: a state of Spec.
InitStarted ==
  /\ query_status_ = OK
  /\ num_remaining_backends_ = NumBackends
  /\ has_called_wait_ = FALSE
  /\ returned_all_results_ = FALSE
  /\ \E request \in {r \in Requests : r.stmt = "QUERY"} :
       /\ needs_finalization_ = request.finalize
       /\ stmt_type_ = request.stmt
       /\ executor_ = [state |-> IF request.coord THEN "prepared" ELSE "NULL",
                       cancelled |-> FALSE]
  /\ backend_exec_states_ =
       [b \in Backends |-> [NewBackendExecState EXCEPT !.initiated = TRUE]]
  /\ lock_ = NoThread
  /\ wait_lock_ = NoThread
  /\ exec_phase = "returned"
  /\ exec_ret = OK
  /\ backend_num = NumBackends
  /\ rpc_pending = {}
  /\ rpc_ret = {}
  /\ pc = [t \in Threads |-> "idle"]
  /\ local = [t \in Threads |-> NoLocal]
  /\ worker = [b \in Backends |-> [running |-> TRUE, cancel_reached |-> 0,
                                   cancel_rpcs |-> 0]]
  /\ num_reports = 0
  /\ hist = NoHist
  /\ wait_rets = [first |-> "NONE", last |-> "NONE"]
  /\ partition_row_counts_ = EmptyMap
  /\ files_to_move_ = EmptyMap
  /\ reported = <<>>
  /\ state_lock = [b \in Backends |-> NoThread]
  /\ lock_ops = [t \in LockThreads |-> <<>>]
  /\ report_ret = "NONE"
  /\ report_known = TRUE
  /\ start_rpc = [b \in Backends |-> NoStartRpc]
  /\ fin = NoFin
  /\ fs = NoFs

\* The operations on a started query: Wait and GetNext on the application
\* thread, Cancel on another, the reports of the workers.
NextStarted ==
  \/ \E cause \in {OK, ERROR} : Cancel(Aux, cause)
  \/ \E t \in Threads, o \in CancelOutcomes : CancelRemoteFragmentsStep(t, o)
  \/ \E t \in Threads : CancelRemoteFragmentsEnd(t)
  \/ \E t \in Threads : UpdateStatus(t)
  \/ WaitForAllBackends(App)
  \/ Wait(App)
  \/ \E s \in {OK, ERROR, CANCELLED} : WaitOpen(App, s)
  \/ \E insert \in {OK, ERROR} : WaitFinish(App, insert)
  \/ GetNextNoExecutor(App)
  \/ GetNext(App)
  \/ \E s \in {OK, ERROR, CANCELLED}, eos \in BOOLEAN, limit \in BOOLEAN :
       GetNextBatch(App, s, eos, limit)
  \/ GetNextAllResults(App)
  \/ \E t \in Reporters, b \in Backends, s \in ReportStatuses, d \in BOOLEAN :
       UpdateFragmentExecStatus(t, b - 1, s, d, NoInsert)
  \/ \E t \in Reporters : UpdateFragmentExecStatusTail(t)
  \/ \E t \in Reporters : UpdateFragmentExecStatusDone(t)

\* The started query under fair scheduling: a thread that can go on, again and
\* again, does (a mutex that is released again and again is got; a blocking
\* call of the local executor returns).  Nothing makes a caller begin an
\* operation or a worker send a report.
SpecFair ==
  /\ InitStarted /\ [][NextStarted]_vars
  /\ \A t \in Threads : SF_vars(Continue(t))

\* ---------------------------------------------------------------- the snapshot of Wait
\* The coordinator of an INSERT that runs a fragment itself, in Wait at the
\* point where UpdateStatus(Open()) has returned OK: Wait holds wait_lock_ and
\* not lock_, and copies the write outputs of its executor (sink) into
\* files_to_move_ and partition_row_counts_, one assignment at a time
\* (partition_insert_stats_ is assigned in the same way and is left out).  The
\* workers report meanwhile, and the merge of a report is taken here statement
\* by statement: lock_, the row counts, the files, the release.
InitSnapshot ==
  /\ query_status_ = OK
  /\ num_remaining_backends_ = NumBackends
  /\ has_called_wait_ = TRUE
  /\ returned_all_results_ = FALSE
  /\ needs_finalization_ = TRUE
  /\ stmt_type_ = "DML"
  /\ executor_ = [state |-> "open", cancelled |-> FALSE]
  /\ backend_exec_states_ =
       [b \in Backends |-> [NewBackendExecState EXCEPT !.initiated = TRUE]]
  /\ lock_ = NoThread
  /\ wait_lock_ = App
  /\ exec_phase = "returned"
  /\ exec_ret = OK
  /\ backend_num = NumBackends
  /\ rpc_pending = {}
  /\ rpc_ret = {}
  /\ pc = [t \in Threads |-> IF t = App THEN "w_snap" ELSE "idle"]
  /\ \E sink \in InsertStatuses :
       local = [t \in Threads |->
                  IF t = App
                  THEN [NoLocal EXCEPT !.op = "Wait", !.idx = 1, !.insert = sink]
                  ELSE NoLocal]
  /\ worker = [b \in Backends |-> [running |-> TRUE, cancel_reached |-> 0,
                                   cancel_rpcs |-> 0]]
  /\ num_reports = 0
  /\ hist = [NoHist EXCEPT !.open_calls = 1]
  /\ wait_rets = [first |-> "NONE", last |-> "NONE"]
  /\ partition_row_counts_ = EmptyMap
  /\ files_to_move_ = EmptyMap
  /\ reported = <<>>
  /\ state_lock = [b \in Backends |-> NoThread]
  /\ lock_ops = [t \in LockThreads |-> <<>>]
  /\ report_ret = "NONE"
  /\ report_known = TRUE
  /\ start_rpc = [b \in Backends |-> NoStartRpc]
  /\ fin = NoFin
  /\ fs = NoFs

\* The thread is at a statement that writes files_to_move_, or
\* partition_row_counts_.
WritesFilesToMove(t) ==
  pc[t] = "u_merge_files" \/ (pc[t] = "w_snap" /\ local[t].idx = 1)
WritesRowCounts(t) ==
  pc[t] = "u_merge_rows" \/ (pc[t] = "w_snap" /\ local[t].idx = 2)

\* The values a std::map can have after a write that turns old into new:
\* new; or, when another thread writes the same map at the same time (a data
\* race), also old (the write is lost) or the empty map (its entries are lost).
WrittenMap(raced, old, new) == IF raced THEN {old, new, EmptyMap} ELSE {new}

\* files_to_move_ = *state->hdfs_files_to_move(), without lock_.
WaitSnapshotFiles(t) ==
  /\ pc[t] = "w_snap" /\ local[t].idx = 1
  /\ files_to_move_' \in
       WrittenMap(\E u \in Threads \ {t} : WritesFilesToMove(u),
                  files_to_move_, local[t].insert.files_to_move)
  /\ local' = [local EXCEPT ![t].idx = 2]
  /\ UNCHANGED <<coordVars, backend_exec_states_, lock_, wait_lock_, execVars, pc,
                 worker, num_reports, hist, wait_rets, partition_row_counts_,
                 reported, lockVars, reportVars, auxVars>>

\* partition_row_counts_ = *state->num_appended_rows(), without lock_; Wait
\* then goes on to FinalizeQuery.
WaitSnapshotRowCounts(t) ==
  /\ pc[t] = "w_snap" /\ local[t].idx = 2
  /\ partition_row_counts_' \in
       WrittenMap(\E u \in Threads \ {t} : WritesRowCounts(u),
                  partition_row_counts_, local[t].insert.num_appended_rows)
  /\ pc' = Goto(t, "w_fin")
  /\ local' = [local EXCEPT ![t] = [NoLocal EXCEPT !.op = "Wait"]]
  /\ hist' = WaitSnapshot(hist, OK)
  /\ UNCHANGED <<coordVars, backend_exec_states_, lock_, wait_lock_, execVars,
                 worker, num_reports, wait_rets, files_to_move_, reported,
                 lockVars, reportVars, auxVars>>

\* lock_guard l(lock_) of the merge of insert_exec_status.
MergeLock(t) ==
  /\ pc[t] = "u_merge"
  /\ lock_ = NoThread
  /\ lock_' = t
  /\ pc' = Goto(t, "u_merge_rows")
  /\ UNCHANGED <<coordVars, backend_exec_states_, wait_lock_, execVars, local,
                 worker, histVars>>

\* The loop partition_row_counts_[key] += rows, under lock_.
MergeRowCounts(t) ==
  /\ pc[t] = "u_merge_rows"
  /\ lock_ = t
  /\ partition_row_counts_' \in
       WrittenMap(\E u \in Threads \ {t} : WritesRowCounts(u),
                  partition_row_counts_,
                  AddRowCounts(partition_row_counts_, local[t].insert.num_appended_rows))
  /\ pc' = Goto(t, "u_merge_files")
  /\ UNCHANGED <<coordVars, backend_exec_states_, lock_, wait_lock_, execVars, local,
                 worker, num_reports, hist, wait_rets, files_to_move_, reported,
                 lockVars, reportVars, auxVars>>

\* files_to_move_.insert(begin, end) under lock_, and the end of the block:
\* lock_ is released.
MergeFilesToMove(t) ==
  /\ pc[t] = "u_merge_files"
  /\ lock_ = t
  /\ files_to_move_' \in
       WrittenMap(\E u \in Threads \ {t} : WritesFilesToMove(u),
                  files_to_move_,
                  InsertFiles(files_to_move_, local[t].insert.files_to_move))
  /\ lock_' = NoThread
  /\ pc' = Goto(t, AfterUpdate(local[t].status, local[t].done))
  /\ local' = [local EXCEPT ![t] = AfterUpdateLocal(local[t].status, local[t].done)]
  /\ UNCHANGED <<coordVars, backend_exec_states_, wait_lock_, execVars, worker,
                 num_reports, hist, wait_rets, partition_row_counts_, reported,
                 lockVars, reportVars, auxVars>>

NextSnapshot ==
  \/ WaitSnapshotFiles(App)
  \/ WaitSnapshotRowCounts(App)
  \/ \E insert \in {OK, ERROR} : WaitFinish(App, insert)
  \/ \E t \in Reporters, b \in Backends, s \in ReportStatuses, d \in BOOLEAN,
        i \in InsertStatuses \cup {NoInsert} :
       UpdateFragmentExecStatus(t, b - 1, s, d, i)
  \/ \E t \in Reporters : MergeLock(t)
  \/ \E t \in Reporters : MergeRowCounts(t)
  \/ \E t \in Reporters : MergeFilesToMove(t)
  \/ \E t \in Reporters : UpdateFragmentExecStatusTail(t)
  \/ \E t \in Reporters : UpdateFragmentExecStatusDone(t)
  \/ \E t \in Reporters : UpdateStatus(t)
  \/ Cancel(Aux, OK)
  \/ \E t \in Threads, o \in CancelOutcomes : CancelRemoteFragmentsStep(t, o)
  \/ \E t \in Threads : CancelRemoteFragmentsEnd(t)

SpecSnapshot == InitSnapshot /\ [][NextSnapshot]_vars

\* ---------------------------------------------------------------- GetErrorLog
\* GetErrorLog: lock_ for the whole call, and in the loop the lock of every
\* slot, taken through the pointer in the slot, which is not tested.  With a
\* NULL slot that is a NULL dereference, after which the call crashes the
\* process (the thread stops where it is, with lock_) or reads on and returns.
GetErrorLog(t) ==
  /\ pc[t] = "idle"
  /\ lock_ = NoThread
  /\ IF NullSlot
     THEN /\ hist' = [hist EXCEPT !.null_deref = TRUE]
          /\ \/ pc' = Goto(t, "crashed") /\ lock_' = t
             \/ UNCHANGED <<pc, lock_>>
     ELSE UNCHANGED <<hist, pc, lock_>>
  /\ UNCHANGED <<coordVars, backend_exec_states_, wait_lock_, execVars, local,
                 worker, num_reports, wait_rets, insertVars, lockVars, reportVars,
                 auxVars>>

\* Exec, Cancel and the status reports, with GetErrorLog called from a second
\* thread at any time.
NextErrorLog ==
  \/ \E r \in Requests : ExecCall(r)
  \/ \E r \in Requests, prepare \in {OK, ERROR}, exprs \in {OK, ERROR} :
       ExecBegin(r, prepare, exprs)
  \/ \E n \in Backends : ExecCreateStates(n)
  \/ \E b \in Backends, o \in ExecOutcomes, d \in BOOLEAN : ExecRemoteFragment(b, o, d)
  \/ ExecNextFragment
  \/ ExecReturnOK
  \/ ExecFragmentFailed(ERROR)
  \/ \E cause \in {OK, ERROR} : Cancel(Aux, cause)
  \/ \E t \in Threads, o \in CancelOutcomes : CancelRemoteFragmentsStep(t, o)
  \/ \E t \in Threads : CancelRemoteFragmentsEnd(t)
  \/ \E t \in Reporters : UpdateStatus(t)
  \/ \E t \in Reporters, b \in Backends, s \in ReportStatuses, d \in BOOLEAN :
       UpdateFragmentExecStatus(t, b - 1, s, d, NoInsert)
  \/ \E t \in Reporters : UpdateFragmentExecStatusTail(t)
  \/ \E t \in Reporters : UpdateFragmentExecStatusDone(t)
  \/ GetErrorLog(Aux)

SpecErrorLog == Init /\ [][NextErrorLog]_vars

\* ---------------------------------------------------------------- properties

\* C1: the status of a BackendExecState never changes from a non-OK value back
\* to OK, whatever step of ExecRemoteFragment, UpdateFragmentExecStatus, Cancel
\* or CancelRemoteFragments is taken.
C1_StatusNeverBackToOK ==
  [][\A b \in States :
       backend_exec_states_[b].status # OK => backend_exec_states_'[b].status # OK]_vars

\* An OK done report (the only report so far) has been applied to a state that
\* CancelRemoteFragments had marked CANCELLED, and the state is still CANCELLED.
C1_Witness ==
  \E b \in States :
    /\ backend_exec_states_[b].status = CANCELLED
    /\ backend_exec_states_[b].done
    /\ worker[b].cancel_reached = 1
    /\ num_reports = 1
    /\ ~returned_all_results_
    /\ \E t \in Reporters : pc[t] = "u_done"

\* C2: once query_status_ holds a non-OK value no step changes it, to OK or to
\* another non-OK value.
C2_QueryStatusFirstWriterWins ==
  [][query_status_ # OK => query_status_' = query_status_]_vars

\* C3: once every state is created and while no UpdateFragmentExecStatus call is
\* in progress, num_remaining_backends_ is the number of states not done.
C3_RemainingCountsNotDone ==
  ((\A b \in States : backend_exec_states_[b].created)
     /\ States = Backends
     /\ \A t \in Reporters : pc[t] = "idle")
  => num_remaining_backends_ =
       Cardinality({b \in Backends : ~backend_exec_states_[b].done})

\* C4: the done flag of a BackendExecState, once true, is never set back to
\* false.
C4_DoneIsSticky ==
  [][\A b \in States :
       backend_exec_states_[b].done => backend_exec_states_'[b].done]_vars

\* C5: once a BackendExecState is done its status does not change.
C5_StatusFrozenOnceDone ==
  [][\A b \in States :
       backend_exec_states_[b].done =>
         backend_exec_states_'[b].status = backend_exec_states_[b].status]_vars

\* The steps of thread t that enter, and that leave, the body of Cancel.
CancelActs(t) == pc[t] = "idle" /\ pc'[t] = "crf" /\ local'[t].op = "Cancel"
CancelReturns(t) == pc[t] = "crf" /\ local[t].op = "Cancel" /\ pc'[t] = "idle"

\* C6: Cancel is idempotent: a Cancel acts (sets query_status_, cancels the
\* executor and the remote fragments) only when it finds query_status_ OK, and
\* it returns with query_status_ non-OK, so that a Cancel that follows it, and
\* any Cancel issued when query_status_ is non-OK, changes nothing.
C6_CancelIdempotent ==
  [][\A t \in Callers :
       /\ CancelActs(t) => query_status_ = OK
       /\ CancelReturns(t) => query_status_' # OK]_vars

\* A Cancel has run after Exec returned OK and has sent its rpcs; the callers
\* are idle, so that the next Cancel finds query_status_ non-OK.
C6_Witness ==
  /\ exec_phase = "returned" /\ exec_ret = OK
  /\ query_status_ = CANCELLED
  /\ \A b \in Backends : worker[b].cancel_rpcs = 1
  /\ \A t \in Callers : pc[t] = "idle"

\* C7 as stated: at most one CancelPlanFragment request per backend, and every
\* backend that was initiated, not done and OK when cancellation reached it
\* gets one.
C7_EveryReachedBackendGetsOneRpc ==
  \A b \in Backends :
    /\ worker[b].cancel_rpcs <= 1
    /\ worker[b].cancel_rpcs = worker[b].cancel_reached

\* C7 amended: at most one CancelPlanFragment request is issued per backend,
\* and only to a backend that was initiated, not done and OK when cancellation
\* reached it, which happens at most once (no request is issued when no
\* connection to the backend can be had); a Cancel without cause that found
\* query_status_ OK holds it at CANCELLED until it returns.
C7_AtMostOneCancelRpc ==
  /\ \A b \in Backends :
       /\ worker[b].cancel_reached <= 1
       /\ worker[b].cancel_rpcs <= worker[b].cancel_reached
  /\ \A t \in Callers :
       (pc[t] = "crf" /\ local[t].op = "Cancel" /\ local[t].status = OK)
         => query_status_ = CANCELLED

\* The row-limit path of GetNext has passed over every state after a Cancel
\* had sent its rpcs, and every backend has still received one request.
C7_Witness ==
  /\ query_status_ = CANCELLED
  /\ pc[App] = "crf" /\ local[App].op = "GetNextLimit"
  /\ local[App].idx > NumBackends
  /\ \A b \in Backends : worker[b].cancel_rpcs = 1

\* C8: every call of Wait returns the status the first call returned.
C8_WaitReturnsSameStatus ==
  wait_rets.first # "NONE" => wait_rets.last = wait_rets.first

\* The threads inside the body of Wait (past the test of has_called_wait_).
InWait == {t \in Callers : local[t].op = "Wait"}

\* C9: each side effect of Wait (Open of the local executor, the snapshot,
\* FinalizeQuery, the DML summary) happens at most once and only once
\* has_called_wait_ is set, by the one thread that is in the body of Wait,
\* which holds wait_lock_.
C9_WaitEffectsAtMostOnce ==
  /\ hist.open_calls <= 1 /\ hist.snapshots <= 1
  /\ hist.finalize_calls <= 1 /\ hist.wait_summaries <= 1
  /\ (hist.open_calls + hist.snapshots + hist.finalize_calls + hist.wait_summaries > 0)
       => has_called_wait_
  /\ Cardinality(InWait) <= 1
  /\ \A t \in Callers : t \in InWait <=> wait_lock_ = t
  /\ (InWait # {} \/ wait_rets.first # "NONE") <=> has_called_wait_

\* The first Wait opened the executor and ran FinalizeQuery, whose error it
\* returned, and a later Wait has returned: each effect is still counted once.
C9_Witness ==
  /\ hist.open_calls = 1 /\ hist.snapshots = 1 /\ hist.finalize_calls = 1
  /\ wait_rets.first = ERROR /\ wait_rets.last = OK

\* C10: FinalizeQuery is invoked only for a query with finalize_params and only
\* from Wait, and the first Wait of such a query does not return without having
\* invoked it, whatever the status of the query.
C10_FinalizeIffNeededAndWaited ==
  /\ hist.finalize_calls > 0 => (needs_finalization_ /\ has_called_wait_)
  /\ (needs_finalization_ /\ wait_rets.first # "NONE") => hist.finalize_calls = 1
  /\ (needs_finalization_ /\ hist.finalize_calls = 0 /\ has_called_wait_)
       => InWait # {}

\* Without a local fragment, the first Wait of a cancelled query that needs
\* finalization has returned, and FinalizeQuery was invoked.
C10_Witness ==
  /\ needs_finalization_ /\ executor_.state = "NULL"
  /\ query_status_ = CANCELLED
  /\ wait_rets.first = CANCELLED
  /\ hist.finalize_calls = 1
\* The sum, per partition key, of num_appended_rows over a sequence of reports,
\* and the set of the <<source, destination>> entries of their files_to_move:
\* neither depends on the order of the sequence.
RECURSIVE SumRows(_, _)
SumRows(reports, k) ==
  IF reports = <<>> THEN 0
  ELSE (IF k \in DOMAIN Head(reports).num_appended_rows
        THEN Head(reports).num_appended_rows[k] ELSE 0) + SumRows(Tail(reports), k)

ReportedKeys ==
  UNION {DOMAIN reported[i].num_appended_rows : i \in 1..Len(reported)}

ReportedFiles ==
  UNION {{<<k, reported[i].files_to_move[k]>> : k \in DOMAIN reported[i].files_to_move} :
           i \in 1..Len(reported)}

ReportsProcessed == \A t \in InsertReporters : pc[t] = "idle"

\* C11: for a write query without a local fragment, once every report received
\* has been processed, partition_row_counts_ maps each partition key reported to
\* the sum of the num_appended_rows all the reports carried for it, and
\* files_to_move_ holds exactly the files_to_move entries of all the reports,
\* whatever the order in which the reports were received and merged.
C11_WriteMapsAreSumAndUnion ==
  ReportsProcessed =>
    /\ DOMAIN partition_row_counts_ = ReportedKeys
    /\ \A k \in ReportedKeys : partition_row_counts_[k] = SumRows(reported, k)
    /\ {<<k, files_to_move_[k]>> : k \in DOMAIN files_to_move_} = ReportedFiles

\* Two reports that share a partition key and a source path have both been
\* merged.
C11_Witness ==
  /\ ReportsProcessed
  /\ Len(reported) = 2
  /\ reported[1] # reported[2]
  /\ partition_row_counts_["p1"] = 3
  /\ DOMAIN files_to_move_ = {"tmp/a", "tmp/b", "tmp"}

\* C12: when a state is CANCELLED and not done (Cancel has marked it) and a
\* report with status OK and done=true is processed for it, the state becomes
\* done and stays CANCELLED, the report goes on to the count, where
\* num_remaining_backends_ decreases by one, and query_status_ is not changed by
\* either step.
C12_LateOkAfterCancel ==
  [][\A t \in Reporters :
       /\ \A b \in States :
            ( /\ pc[t] = "idle"
              /\ num_reports' = num_reports + 1
              /\ backend_exec_states_[b].status = CANCELLED
              /\ ~backend_exec_states_[b].done
              /\ backend_exec_states_'[b].done
              /\ pc'[t] \notin {"u_tail", "us"} )
            => /\ backend_exec_states_'[b].status = CANCELLED
               /\ pc'[t] = "u_done"
               /\ query_status_' = query_status_
               /\ num_remaining_backends_' = num_remaining_backends_
       /\ (pc[t] = "u_done" /\ pc'[t] # "u_done")
            => /\ num_remaining_backends_' = num_remaining_backends_ - 1
               /\ query_status_' = query_status_
               /\ backend_exec_states_' = backend_exec_states_]_vars

\* Cancel has marked a backend that was not done, and the one report made since,
\* OK with done=true, has been counted.
C12_Witness ==
  /\ \A t \in Reporters : pc[t] = "idle"
  /\ num_reports = 1
  /\ ~returned_all_results_
  /\ query_status_ = CANCELLED
  /\ num_remaining_backends_ = Len(backend_exec_states_) - 1
  /\ \E b \in States :
       /\ backend_exec_states_[b].status = CANCELLED
       /\ backend_exec_states_[b].done
       /\ worker[b].cancel_reached > 0

\* GetNext returns from WaitForAllBackends with query_status_ OK: it returns OK
\* with the NULL batch.
GetNextReturnsEnd(t) ==
  /\ pc[t] = "wfab_check"
  /\ local[t].op = "GetNext"
  /\ pc'[t] = "idle"
  /\ query_status_ = OK

\* C13: with a local fragment, GetNext returns OK with the NULL batch only when
\* num_remaining_backends_ is 0 and every state is done, on the row-limit path
\* as well.
C13_EndOnlyAfterAllDone ==
  [][GetNextReturnsEnd(App) =>
       /\ num_remaining_backends_ = 0
       /\ \A b \in States : backend_exec_states_[b].done]_vars

\* ExecRemoteFragment runs for the state b.
StartRpc(b) == pc[App] = "exec_rpc" /\ b \in rpc_pending /\ b \notin rpc_pending'

\* C14: when Exec runs the start rpc of an instance, the instance belongs to the
\* fragment ParallelExecutor is running, and the start rpc of every instance of
\* every earlier fragment has returned successfully (the instance is initiated).
C14_FragmentsStartInPlanOrder ==
  [][\A b \in Backends :
       StartRpc(b) =>
         /\ b >= local[App].first
         /\ \A b2 \in 1..(local[App].first - 1) :
              backend_exec_states_[b2].initiated]_vars

\* The start rpc of an instance of the second fragment has been run, after the
\* one of the first fragment.
C14_Witness ==
  /\ pc[App] = "exec_rpc"
  /\ local[App].first = 2
  /\ rpc_pending = {}
  /\ worker[2].running
  /\ backend_exec_states_[1].initiated

\* Exec has returned before it resized backend_exec_states_: the preparation
\* of the local fragment failed.
ExecFailedInPrepare == exec_phase = "returned" /\ backend_exec_states_ = <<>>

\* C15: when Exec runs a start rpc, the local executor, if there is one, has
\* been prepared; and when the preparation of the local fragment or of its
\* output expressions fails, Exec returns the error and no worker has been sent
\* a start rpc or a cancel rpc.
C15_PrepareBeforeRemoteStart ==
  [][/\ \A b \in Backends : StartRpc(b) => executor_.state \in {"NULL", "prepared"}
     /\ ExecFailedInPrepare' =>
          /\ exec_ret' # OK
          /\ executor_'.state \in {"created", "prepared"}
          /\ \A b \in Backends : ~worker'[b].running /\ worker'[b].cancel_rpcs = 0]_vars

\* A start rpc has reached a worker while the local executor is prepared.
C15_Witness ==
  /\ pc[App] = "exec_rpc"
  /\ executor_.state = "prepared"
  /\ \E b \in Backends : worker[b].running

\* Exec is in the CancelInternal that follows a failed start rpc, or has
\* returned from it.
ExecCancels == pc[App] = "crf" /\ local[App].op = "Exec"
ExecFailedInStart ==
  ExecCancels \/ (exec_phase = "returned" /\ exec_ret # OK /\ backend_exec_states_ # <<>>)

\* C16 as stated: when Exec returns after a failed start rpc, every instance
\* that is initiated and not done is CANCELLED and has been sent a cancel rpc.
C16_EveryInitiatedInstanceCancelled ==
  [][(ExecCancels /\ ~ExecCancels') =>
       \A b \in States :
         (backend_exec_states_'[b].initiated /\ ~backend_exec_states_'[b].done)
           => /\ backend_exec_states_'[b].status = CANCELLED
              /\ worker'[b].cancel_rpcs >= 1]_vars

\* C16, amended: when a start rpc fails, query_status_ becomes the error the
\* start rpcs returned and is held until Exec returns it; no state of a later
\* fragment is created or started; the cancellation marks CANCELLED every state
\* that is initiated, not done and has OK status when it is reached, and sends
\* it at most one cancel rpc (none when no connection can be had); a state that
\* is not initiated or not OK is left as it is and is sent nothing.
C16_StartFailureCancelsInitiated ==
  [][/\ (pc[App] = "exec_rpc" /\ ExecCancels')
          => query_status_' \in rpc_ret /\ query_status_' # OK
     /\ ExecCancels => query_status_' = query_status_
     /\ (ExecCancels /\ ~ExecCancels')
          => exec_phase' = "returned" /\ exec_ret' = query_status_ /\ lock_' = NoThread
     /\ ExecFailedInStart' =>
          \A b \in Backends : b > backend_num' =>
            ~backend_exec_states_'[b].created /\ ~worker'[b].running
     /\ (ExecCancels /\ ExecCancels' /\ local'[App].idx = local[App].idx + 1) =>
          LET i == local[App].idx
              st == backend_exec_states_[i]
          IN /\ \A b \in States \ {i} :
                  backend_exec_states_'[b] = backend_exec_states_[b]
             /\ IF st.created /\ st.initiated /\ ~st.done /\ st.status = OK
                THEN /\ backend_exec_states_'[i].status = CANCELLED
                     /\ worker'[i].cancel_rpcs \in {worker[i].cancel_rpcs,
                                                    worker[i].cancel_rpcs + 1}
                     /\ worker[i].cancel_rpcs = 0
                ELSE /\ backend_exec_states_'[i] = st
                     /\ worker' = worker]_vars

\* Exec has returned the error of a failed start rpc: one instance had been
\* started and has been cancelled with an rpc, another was never initiated and
\* has been sent nothing.
C16_Witness ==
  /\ exec_phase = "returned"
  /\ exec_ret = ERROR
  /\ query_status_ = ERROR
  /\ \E b \in States :
       /\ backend_exec_states_[b].status = CANCELLED
       /\ worker[b].cancel_rpcs = 1
  /\ \E b \in States :
       /\ backend_exec_states_[b].created
       /\ ~backend_exec_states_[b].initiated
       /\ worker[b].cancel_rpcs = 0

\* The locks a thread holds, and the thread it waits for: the owner of the mutex
\* it is about to acquire (itself, if it holds that mutex), or a task it joins.
HoldsStateLock(t) == \E b \in Backends : state_lock[b] = t

AcquiresNext(t, l) ==
  lock_ops[t] # <<>> /\ Head(lock_ops[t]).op = "acq" /\ Head(lock_ops[t]).lock = l

WaitsFor(t) ==
  IF lock_ops[t] = <<>> THEN {}
  ELSE LET o == Head(lock_ops[t])
       IN CASE o.op = "acq" -> {Owner(o.lock)} \ {NoThread}
            [] o.op = "join" -> {TaskNames[b] : b \in {c \in o.bs :
                                                        lock_ops[TaskNames[c]] # <<>>}}
            [] OTHER -> {}

RECURSIVE WaitsForWithin(_, _)
WaitsForWithin(ts, n) ==
  IF n = 0 THEN ts
  ELSE WaitsForWithin(ts \cup UNION {WaitsFor(u) : u \in ts}, n - 1)

InWaitCycle(t) == t \in WaitsForWithin(WaitsFor(t), Cardinality(LockThreads))

\* C17: no thread is about to acquire lock_ while it holds a per-state lock, nor
\* wait_lock_ while it holds lock_ or a per-state lock, and no thread is in a
\* cycle of threads each waiting for a lock the next one holds.
C17_LockOrderNoDeadlock ==
  \A t \in LockThreads :
    /\ AcquiresNext(t, LockL) => ~HoldsStateLock(t)
    /\ AcquiresNext(t, LockW) => (~HoldsStateLock(t) /\ lock_ # t)
    /\ ~InWaitCycle(t)

\* Contention on all three kinds of lock: a thread cancels under lock_ and holds
\* a state's lock, a report waits for that state's lock, and a thread inside
\* Wait, holding wait_lock_, waits for lock_.
C17_Witness ==
  \E t \in LockThreads, u \in LockThreads, v \in LockThreads, b \in Backends :
    /\ lock_ = t /\ state_lock[b] = t
    /\ AcquiresNext(u, LockS(b))
    /\ wait_lock_ = v /\ AcquiresNext(v, LockL)

\* A handler of a report is in UpdateStatus with a status that is an error for
\* the query, and query_status_ is OK.
ReportFailsQuery(t) ==
  /\ pc[t] = "us"
  /\ lock_ = NoThread
  /\ pc'[t] # "us"
  /\ query_status_ = OK
  /\ local[t].status # OK
  /\ ~(returned_all_results_ /\ local[t].status = CANCELLED)

\* The handler is in the CancelInternal of that UpdateStatus.
ReportCancels(t) == pc[t] = "crf" /\ local[t].op = "UFES"

\* C18 as stated: the cancellation that an error report starts sends exactly one
\* cancel rpc to every state it finds initiated, not done and OK.
C18_ErrorReportCancelsWithOneRpc ==
  [][\A t \in Reporters :
       (ReportCancels(t) /\ ReportCancels(t)' /\ local'[t].idx = local[t].idx + 1
          /\ NeedsCancel(backend_exec_states_[local[t].idx]))
       => /\ backend_exec_states_'[local[t].idx].status = CANCELLED
          /\ worker'[local[t].idx].cancel_rpcs = 1]_vars

\* C18, amended: when UpdateStatus gets, under lock_, a reported status that is
\* not OK and not a CANCELLED with returned_all_results_ set, and query_status_
\* is OK, then query_status_ becomes that status and stays it while the handler
\* holds lock_, the local executor is cancelled, and every state found
\* initiated, not done and OK is marked CANCELLED and sent at most one cancel
\* rpc, the first it ever gets; the other states are left as they are.
C18_ErrorReportFailsQuery ==
  [][\A t \in Reporters :
       /\ ReportFailsQuery(t) =>
            /\ query_status_' = local[t].status
            /\ executor_' = CancelExecutor(executor_)
            /\ ReportCancels(t)' /\ lock_' = t /\ local'[t].idx = 1
       /\ ReportCancels(t) => query_status_' = query_status_ /\ lock_ = t
       /\ (ReportCancels(t) /\ ~ReportCancels(t)') =>
            /\ local[t].idx > Len(backend_exec_states_)
            /\ lock_' = NoThread
       /\ (ReportCancels(t) /\ ReportCancels(t)' /\ local'[t].idx = local[t].idx + 1) =>
            LET i == local[t].idx
                st == backend_exec_states_[i]
            IN IF st.created /\ st.initiated /\ ~st.done /\ st.status = OK
               THEN /\ backend_exec_states_'[i].status = CANCELLED
                    /\ worker[i].cancel_rpcs = 0
                    /\ worker'[i].cancel_rpcs \in {0, 1}
               ELSE /\ backend_exec_states_'[i] = st
                    /\ worker' = worker]_vars

\* The handler of an error report is at the end of the cancellation it started:
\* the reporting state has the error, another state has been marked CANCELLED
\* and sent its cancel rpc, the local executor has been cancelled.
C18_Witness ==
  \E t \in Reporters :
    /\ ReportCancels(t)
    /\ local[t].idx > Len(backend_exec_states_)
    /\ query_status_ = ERROR
    /\ executor_.cancelled
    /\ \E b \in States : backend_exec_states_[b].status = ERROR
    /\ \E b \in States :
         /\ backend_exec_states_[b].status = CANCELLED
         /\ worker[b].cancel_rpcs = 1

\* C19: when the handler of a CANCELLED report finds returned_all_results_ set,
\* at its own test or at the one of UpdateStatus, query_status_ is left as it
\* is, CancelInternal is not run, and a report with done=true goes on to the
\* count.
C19_CancelledAfterAllResultsIgnored ==
  [][\A t \in Reporters :
       ( /\ pc[t] \in {"u_tail", "us"}
         /\ pc'[t] # pc[t]
         /\ local[t].status = CANCELLED
         /\ returned_all_results_ )
       => /\ query_status_' = query_status_
          /\ pc'[t] # "crf"
          /\ local[t].done => pc'[t] = "u_done"]_vars

\* C20: UpdateFragmentExecStatus returns INTERNAL_ERROR exactly for a report
\* whose backend_num is not an index of backend_exec_states_, and the call that
\* returns it changes nothing of query_status_, num_remaining_backends_, the
\* write maps, the states, the locks and the workers.
C20_UnknownBackendNumberRejected ==
  [][num_reports' = num_reports + 1 =>
       /\ (report_ret' = INTERNAL_ERROR) <=> ~report_known'
       /\ report_ret' = INTERNAL_ERROR =>
            /\ UNCHANGED <<coordVars, backend_exec_states_, lock_, wait_lock_, pc,
                           local, worker, partition_row_counts_, files_to_move_,
                           reported, hist>>]_vars

\* A report with an unknown backend number has been answered after one that was
\* processed and changed the state it named.
C20_Witness ==
  /\ report_ret = INTERNAL_ERROR
  /\ ~report_known
  /\ num_reports = 2
  /\ \E b \in States : backend_exec_states_[b].status # OK

\* A thread runs one iteration of the loop of CancelRemoteFragments.
CancelIteration(t) ==
  pc[t] = "crf" /\ pc'[t] = "crf" /\ local'[t].idx = local[t].idx + 1

\* C21: an iteration of CancelRemoteFragments leaves a state that is not
\* created, not initiated, not OK or done as it is and sends it nothing; any
\* other state has status CANCELLED after the iteration, whatever became of the
\* rpc, and nothing else of it is changed.
C21_CancelSkipsOrMarksCancelled ==
  [][\A t \in Threads :
       CancelIteration(t) =>
         LET i == local[t].idx
             st == backend_exec_states_[i]
         IN /\ \A b \in States \ {i} :
                 /\ backend_exec_states_'[b] = backend_exec_states_[b]
                 /\ worker'[b] = worker[b]
            /\ IF ~st.created \/ ~st.initiated \/ st.status # OK \/ st.done
               THEN /\ backend_exec_states_'[i] = st
                    /\ worker'[i] = worker[i]
               ELSE /\ backend_exec_states_'[i] = [st EXCEPT !.status = CANCELLED]
                    /\ worker'[i].cancel_rpcs <= worker[i].cancel_rpcs + 1]_vars

\* A cancellation has gone over all the states: it has marked one and left
\* alone another, which was done with status OK.
C21_Witness ==
  \E t \in Threads :
    /\ pc[t] = "crf"
    /\ local[t].idx > Len(backend_exec_states_)
    /\ \E b \in States :
         /\ backend_exec_states_[b].status = CANCELLED
         /\ worker[b].cancel_reached = 1
    /\ \E b \in States :
         /\ backend_exec_states_[b].done
         /\ backend_exec_states_[b].status = OK
         /\ worker[b].cancel_reached = 0

\* The first call of Wait returns in this step.
FirstWaitReturns == wait_rets.first = "NONE" /\ wait_rets'.first # "NONE"

\* C22: when query_status_ is not OK at the moment the first call of Wait
\* returns, that call returns a status that is not OK, with and without a local
\* fragment, with and without finalization.
C22_FirstWaitReturnsQueryError ==
  [][(FirstWaitReturns /\ query_status_ # OK) => wait_rets'.first # OK]_vars

\* C23: in every reachable state in which query_status_ is not OK,
\* CancelInternal has been invoked for the query; and every step that assigns
\* query_status_ a value that is not OK is the step of a thread that invokes
\* CancelInternal in it and holds lock_ afterwards.
C23_NonOkStatusImpliesCancelInternal ==
  /\ [](query_status_ # OK => hist.cancel_internal)
  /\ [][(query_status_' # query_status_ /\ query_status_' # OK) =>
          \E t \in Threads :
            /\ lock_' = t
            /\ pc'[t] = "crf" /\ local'[t].idx = 1
            /\ executor_' = CancelExecutor(executor_')
            /\ hist'.cancel_internal]_vars

C23_Witness ==
  /\ query_status_ = ERROR
  /\ exec_phase = "returned" /\ exec_ret = OK
  /\ hist.cancel_internal
  /\ lock_ = NoThread
  /\ \E b \in States : worker[b].cancel_reached = 1

\* C24: ExecRemoteFragment makes at most two ExecPlanFragment requests for a
\* state; the second is made only after a transport exception of the first and
\* one successful reopen, and then always; a failed reopen or a second
\* exception makes the call return an error with the state's status not OK and
\* initiated false; initiated is true exactly when a request has been answered
\* with the status OK.
C24_AtMostTwoStartAttempts ==
  \A b \in States :
    LET r == start_rpc[b]
        st == backend_exec_states_[b]
    IN /\ r.attempts <= 2
       /\ r.reopens <= 1
       /\ r.reopens = 1 <=> (r.thrown >= 1 /\ r.phase # "thrown")
       /\ r.attempts = 2 => (r.thrown >= 1 /\ r.reopen = OK)
       /\ (r.phase = "returned" /\ r.thrown >= 1 /\ r.reopen = OK) => r.attempts = 2
       /\ (r.phase = "returned" /\ (r.reopen = ERROR \/ r.thrown = 2)) =>
            (st.status # OK /\ ~st.initiated /\ r.ret # OK)
       /\ st.initiated <=> (r.phase = "returned" /\ r.reply = "ok")

C24_Witness ==
  \E b1, b2 \in States :
    /\ start_rpc[b1].phase = "returned" /\ start_rpc[b1].thrown = 2
    /\ start_rpc[b1].attempts = 2
    /\ start_rpc[b2].phase = "returned" /\ start_rpc[b2].thrown = 1
    /\ start_rpc[b2].attempts = 2 /\ backend_exec_states_[b2].initiated

\* The batch a was executed, and later the batch b.
BatchBefore(a, b) ==
  \E i, j \in DOMAIN fs.batches : i < j /\ fs.batches[i] = a /\ fs.batches[j] = b
BatchDone(a) == \E i \in DOMAIN fs.batches : fs.batches[i] = a
Failed(batch) == {o \in batch : ~o.ok}

\* C25: the batch of staging-directory deletions is executed only after the
\* batch of renames has been executed with every rename successful; when a
\* rename has failed no staging directory is deleted by FinalizeSuccessfulInsert
\* and it returns an error, which FinalizeQuery returns.
C25_NoStagingDeletionBeforeRenames ==
  /\ (BatchDone("delete") \/ fs.del # {}) =>
       (BatchBefore("move", "delete") /\ Failed(fs.move) = {})
  /\ Failed(fs.move) # {} =>
       /\ ~BatchDone("delete") /\ fs.del = {}
       /\ fin.insert = ERROR
       /\ fin.phase = "returned" => fin.ret = ERROR

C25_Witness ==
  /\ fin.phase = "returned"
  /\ fs.move # {} /\ fs.del # {}
  /\ BatchBefore("move", "delete")

\* C26: when a rename, a deletion of a staging directory or the recursive
\* deletion of the staging root has failed, FinalizeQuery returns a status that
\* is not OK.
C26_FileSystemFailureIsReturned ==
  (fin.phase = "returned" /\
     (Failed(fs.move) # {} \/ Failed(fs.del) # {} \/ fs.root = "failed")) =>
    fin.ret # OK

\* C26, amended: when a rename or a deletion of a staging directory has failed,
\* FinalizeQuery returns a status that is not OK; the recursive deletion of the
\* staging root does not change the status FinalizeQuery returns, whether it
\* succeeds or fails.
C26_RenameOrDeletionFailureIsReturned ==
  fin.phase = "returned" =>
    /\ (Failed(fs.move) # {} \/ Failed(fs.del) # {}) => fin.ret # OK
    /\ fin.ret = fin.return_status
    /\ fin.ret = (IF fin.insert = "NONE" THEN fin.entry ELSE fin.insert)

C26_Witness ==
  /\ fin.phase = "returned"
  /\ Failed(fs.move) = {} /\ Failed(fs.del) # {}
  /\ fs.root = "failed"
  /\ fin.ret = ERROR

\* C27: FinalizeQuery returns only after the recursive deletion of the staging
\* root has been issued, whatever query_status_ was and whatever became of
\* FinalizeSuccessfulInsert; when query_status_ was not OK on entry, no
\* partition is prepared, no file renamed, no staging directory deleted, and
\* the status returned is that of the entry.
C27_StagingRootAlwaysRemoved ==
  /\ (fin.phase = "returned" \/ wait_rets.first # "NONE") =>
       (BatchDone("root") /\ fs.root # "none")
  /\ (fin.phase # "none" /\ fin.entry # OK) =>
       /\ fs.prep = {} /\ fs.move = {} /\ fs.del = {}
       /\ ~BatchDone("prepare") /\ ~BatchDone("move") /\ ~BatchDone("delete")
       /\ fin.insert = "NONE"
       /\ fin.phase = "returned" => fin.ret = fin.entry
       /\ wait_rets.first # "NONE" => wait_rets.first = fin.entry

C27_Witness ==
  /\ wait_rets.first = CANCELLED
  /\ fin.entry = CANCELLED
  /\ fs.batches = <<"root">>
  /\ files_to_move_ # EmptyMap

\* C28: when the operations of the partition preparation that failed are all
\* CREATE_DIR, the files are moved next; when a DELETE or a DELETE_THEN_CREATE
\* has failed, FinalizeSuccessfulInsert returns an error and no rename and no
\* deletion of a staging directory is issued.
C28_OnlyCreateDirErrorsTolerated ==
  /\ (BatchDone("prepare") /\ \A o \in Failed(fs.prep) : o.op = "CREATE_DIR") =>
       (fin.phase = "move" \/ BatchBefore("prepare", "move"))
  /\ (\E o \in Failed(fs.prep) : o.op \in {"DELETE", "DELETE_THEN_CREATE"}) =>
       /\ fin.insert = ERROR
       /\ fs.move = {} /\ fs.del = {}
       /\ ~BatchDone("move") /\ ~BatchDone("delete")

C28_Witness ==
  /\ Failed(fs.prep) # {}
  /\ \A o \in Failed(fs.prep) : o.op = "CREATE_DIR"
  /\ fs.move # {} /\ Failed(fs.move) = {}
  /\ fin.phase = "returned" /\ fin.ret = OK

\* C29: ReportQuerySummary adds the backends' times and rates to the
\* accumulators at most once for a query, whatever calls of Exec, Wait,
\* GetNext and Cancel and whatever reports there are.
C29_SummaryComputedAtMostOnce == hist.summaries <= 1

\* ReportQuerySummary computes the summary in this step.
SummaryStarts == hist'.summaries > hist.summaries

\* C30: when ReportQuerySummary starts, every backend state is done or has a
\* status that is not OK, and no report updates the profile of its state after
\* ReportQuerySummary has run.
C30_NoProfileUpdateAfterSummary ==
  /\ [][SummaryStarts =>
          \A b \in States :
            backend_exec_states_[b].created =>
              (backend_exec_states_[b].done \/ backend_exec_states_[b].status # OK)]_vars
  /\ [](~hist.late_profile_update)

\* Thread t is in WaitForAllBackends.
InWaitForAllBackends(t) == pc[t] \in {"wfab_check", "wfab_wait"}

\* Every backend's final report has been processed: every state is done and no
\* handler of a report is running.
AllReportsProcessed ==
  /\ \A b \in States : backend_exec_states_[b].created => backend_exec_states_[b].done
  /\ \A t \in Reporters : pc[t] = "idle"

\* C31: a thread leaves WaitForAllBackends only when num_remaining_backends_ is
\* not positive or query_status_ is not OK; and under fair scheduling a thread
\* in WaitForAllBackends returns once every backend's final report has been
\* processed or query_status_ is not OK.
C31_WaitForAllBackendsReturns ==
  /\ [][\A t \in Callers :
          (InWaitForAllBackends(t) /\ ~InWaitForAllBackends(t)') =>
             ~(num_remaining_backends_ > 0 /\ query_status_ = OK)]_vars
  /\ \A t \in Callers :
       (InWaitForAllBackends(t) /\ (AllReportsProcessed \/ query_status_ # OK))
         ~> ~InWaitForAllBackends(t)

\* C32: a report leaves the status of a state that is not OK as it is, whatever
\* status the report carries.
C32_ReportKeepsExistingError ==
  [][num_reports' = num_reports + 1 =>
       \A b \in States :
          backend_exec_states_[b].status # OK =>
            backend_exec_states_'[b].status = backend_exec_states_[b].status]_vars

\* Exec has been called and has not returned.
InExec == exec_phase \in {"called", "running"}

\* C33: a Cancel that runs concurrently with Exec takes effect only after Exec
\* has released lock_: while Exec is in progress no Cancel acts, no cancel rpc is
\* sent to a backend whose start rpc has not returned, and when a Cancel that
\* acted returns after Exec, every instance Exec initiated that is not done has
\* been marked CANCELLED or had reported an error before.
C33_CancelWaitsForExec ==
  [][/\ \A t \in Callers : CancelActs(t) => ~InExec
     /\ \A b \in Backends :
          worker'[b].cancel_rpcs > worker[b].cancel_rpcs =>
            /\ b \notin rpc_pending
            /\ backend_exec_states_[b].initiated
     /\ \A t \in Callers :
          (CancelReturns(t) /\ exec_phase = "returned") =>
            \A b \in States :
              (backend_exec_states_[b].initiated /\ ~backend_exec_states_[b].done)
                => backend_exec_states_[b].status # OK]_vars

\* C34: the assertion of Exec holds: at the moment Exec records the failure of a
\* start rpc in query_status_, query_status_ is OK.
C34_NobodyCancelledBeforeStartFailure ==
  [][(pc[App] = "exec_rpc" /\ ExecCancels') => query_status_ = OK]_vars

\* C35: every write of the query-wide state that lock_ protects is made by a
\* thread that holds lock_ (a section of lock_ taken as one step starts with
\* lock_ free), and no two threads are at writes of the same map at the same
\* time.
C35_WritesHoldLock ==
  [][/\ (<<partition_row_counts_, files_to_move_>>' #
           <<partition_row_counts_, files_to_move_>>)
          => /\ lock_ \in Threads
             /\ pc'[lock_] # pc[lock_]
     /\ (<<query_status_, num_remaining_backends_>>' #
           <<query_status_, num_remaining_backends_>>)
          => \/ lock_ = NoThread
             \/ pc'[lock_] # pc[lock_]
     /\ \A t, u \in Threads :
          t # u => /\ ~(WritesFilesToMove(t) /\ WritesFilesToMove(u))
                   /\ ~(WritesRowCounts(t) /\ WritesRowCounts(u))]_vars

\* C36: the operations that go over backend_exec_states_ dereference only slots
\* that hold a created state: no call has dereferenced a NULL slot, and none
\* has crashed on one.
C36_OnlyCreatedSlotsDereferenced ==
  /\ ~hist.null_deref
  /\ \A t \in Threads : pc[t] # "crashed"

\* A call of Cancel or of UpdateStatus is in progress on thread t: it is in
\* CancelInternal, or about to enter UpdateStatus.
CancelInProgress(t) ==
  \/ pc[t] = "crf" /\ local[t].op # "GetNextLimit"
  \/ pc[t] = "us"

\* C37: when no Exec, Cancel or UpdateStatus call is in progress and
\* query_status_ is not OK, no state is initiated, not done and OK: a failed or
\* cancelled query leaves no started instance running unmarked.
C37_NoInstanceLeftRunning ==
  (/\ query_status_ # OK
   /\ ~InExec
   /\ \A t \in Threads : ~CancelInProgress(t))
  => \A b \in States :
       ~(/\ backend_exec_states_[b].initiated
         /\ ~backend_exec_states_[b].done
         /\ backend_exec_states_[b].status = OK)

\* The thread is blocked in executor_->Open() (in Wait) or in
\* executor_->GetNext() (in GetNext).
BlockedInExecutor(t) == pc[t] \in {"w_open", "gn_exec"}

\* A thread blocked in the Open or the GetNext of the local executor does not
\* hold lock_, and the Cancel of the other caller does not wait for it: with
\* lock_ free the Cancel can act, a Cancel that has acted holds lock_, has set
\* query_status_ and cancelled the local executor, and can take its next step
\* over the remote fragments while the thread is still blocked.
CancelNotBlockedByExecutor ==
  \A t \in Callers :
    BlockedInExecutor(t) =>
      /\ lock_ # t
      /\ \A u \in Callers \ {t} :
           /\ (pc[u] = "idle" /\ lock_ = NoThread) => ENABLED Cancel(u, OK)
           /\ (pc[u] = "crf" /\ local[u].op = "Cancel") =>
                /\ lock_ = u
                /\ query_status_ # OK
                /\ executor_.cancelled
                /\ ENABLED (\/ \E o \in CancelOutcomes : CancelRemoteFragmentsStep(u, o)
                            \/ CancelRemoteFragmentsEnd(u))

\* C38: a thread blocked in the Open or the GetNext of the local executor does
\* not hold lock_, so a Cancel of the other caller, issued after Exec has
\* returned, does not wait for it, and the query is cancelled by it: when the
\* Cancel finds query_status_ OK it sets it and cancels the executor and the
\* remote fragments; when it would find it non-OK and return at once, the
\* executor the thread is blocked in has been cancelled.
C38_CancelAfterExecCancels ==
  /\ CancelNotBlockedByExecutor
  /\ \A t \in Callers :
       (/\ BlockedInExecutor(t)
        /\ query_status_ # OK
        /\ lock_ = NoThread)
       => executor_.cancelled
====
